---------------------------- MODULE Spec2Model ----------------------------
(***************************************************************************)
(* Bridge routing engine of LinkCord: the in-memory Connection Graph of    *)
(* BridgeCore (internal/bridge), the persistence methods it calls          *)
(* (internal/database) and the fan-out of inbound messages to the platform *)
(* adapters.                                                               *)
(*                                                                         *)
(* Abstractions: timestamps (created_at, updated_at, CreatedAt) and the    *)
(* room_name / room_type columns are left out: the core writes them but    *)
(* never reads them back for routing.  main always constructs the core     *)
(* with an opened database (cmd/bridge/main.go:33-41), so bc.db # nil.     *)
(* Of a message only its source platform, source channel, user id and      *)
(* display name are kept; of an adapter, whether it is connected and       *)
(* whether each send succeeds.                                             *)
(*                                                                         *)
(* Callers: main, the update listener that Client.Start spawns and a       *)
(* goroutine on which the Discord library runs onMessageCreate.  pc[t] is  *)
(* the statement caller t is executing; an access of a Go map lasts from   *)
(* the step that enters its statement to the step that leaves it, and its  *)
(* effect on the map is applied by the step that leaves it.  Two callers   *)
(* inside statements on the same map, one of them writing, are a data      *)
(* race: the run goes on as if the accesses were serial, or the runtime    *)
(* ends the process (fatal error: concurrent map writes).                  *)
(***************************************************************************)
EXTENDS Integers, Sequences, FiniteSets, TLC

\* ---------------------------------------------------------------- bounds
NumChannels == 2        \* platform channel ids "1" .. "NumChannels"
MaxRooms    == 2        \* rooms made by AddBridge; rooms of a store drawn for a rebuild
MaxBridges  == 2        \* AddBridge stops at 2 * MaxBridges directed edges
MaxFaults   == 1        \* I/O errors of the store in one behaviour
MaxRows     == 3        \* rows of room_mappings in a store drawn for a rebuild
MaxSendFaults == 2      \* adapter calls that fail during one fan-out
NumAdapters == 2        \* adapter objects made for one platform tag
NumUsers    == 1        \* platform user ids "u1" .. , besides the empty one
NumNames    == 2        \* display names "name1" ..
MaxUpdates  == 2        \* updates the Telegram library puts on updatesChan
MaxEvents   == 1        \* MessageCreate events the Discord library dispatches

\* ------------------------------------------------------------- constants
PlatformDiscord  == "discord"
PlatformTelegram == "telegram"
PlatformTags     == {PlatformDiscord, PlatformTelegram}

\* fmt's %d for a non-negative integer
Digit(n) ==
  CASE n = 0 -> "0" [] n = 1 -> "1" [] n = 2 -> "2" [] n = 3 -> "3"
    [] n = 4 -> "4" [] n = 5 -> "5" [] n = 6 -> "6" [] n = 7 -> "7"
    [] n = 8 -> "8" [] n = 9 -> "9"

RECURSIVE Itoa(_)
Itoa(n) == IF n < 10 THEN Digit(n) ELSE Itoa(n \div 10) \o Digit(n % 10)

ChannelIDs == {Itoa(i) : i \in 1..NumChannels}

\* the strings handed to SetUserMapping: the empty string is one of them
UserIDs      == {""} \cup {"u" \o Itoa(i) : i \in 1..NumUsers}
DisplayNames == {"name" \o Itoa(i) : i \in 1..NumNames}

\* --------------------------------------------------------------- helpers
RemoveAt(s, i) == SubSeq(s, 1, i - 1) \o SubSeq(s, i + 1, Len(s))

\* index of the first element of s that satisfies P, 0 when there is none
FirstIndex(s, P(_)) ==
  IF \E i \in 1..Len(s) : P(s[i])
    THEN CHOOSE i \in 1..Len(s) : P(s[i]) /\ \A k \in 1..(i - 1) : ~P(s[k])
    ELSE 0

\* all orders in which a Go map with key set S can be ranged over
Orders(S) ==
  {f \in [1..Cardinality(S) -> S] : \A i, j \in 1..Cardinality(S) : f[i] = f[j] => i = j}

RECURSIVE Flatten(_)
Flatten(ss) == IF ss = <<>> THEN <<>> ELSE Head(ss) \o Flatten(Tail(ss))

\* ------------------------------------------------- Persistence Store (db)
\* db.rooms          : sequence of room names, id = position
\* db.room_mappings  : sequence of rows, id = position
\* db.bridge_config  : sequence of rows, id = position
EmptyDB == [rooms |-> <<>>, room_mappings |-> <<>>, bridge_config |-> <<>>]

RoomName(sp, sc, tp, tc) == "bridge_" \o sp \o "_" \o sc \o "_" \o tp \o "_" \o tc

\* Every database method returns [db, err, ...]; fault = an I/O error of the
\* statement, which leaves the table as it was.
CreateOrGetRoom(d, name, fault) ==
  LET i == FirstIndex(d.rooms, LAMBDA r : r = name) IN
  IF fault THEN [db |-> d, err |-> TRUE, id |-> 0]
  ELSE IF i # 0 THEN [db |-> d, err |-> FALSE, id |-> i]
  ELSE [db  |-> [d EXCEPT !.rooms = Append(@, name)],
        err |-> FALSE,
        id  |-> Len(d.rooms) + 1]

\* mutant: the table without its UNIQUE(platform, platform_room_id)
CreateOrGetRoomMapping_NoUnique(d, roomID, platform, platformRoomID, fault) ==
  LET i == FirstIndex(d.room_mappings,
             LAMBDA m : m.room_id = roomID /\ m.platform = platform
                        /\ m.platform_room_id = platformRoomID)
  IN
  IF fault THEN [db |-> d, err |-> TRUE]
  ELSE IF i # 0
    THEN [db  |-> [d EXCEPT !.room_mappings[i].is_active = TRUE],
          err |-> FALSE]
  ELSE [db  |-> [d EXCEPT !.room_mappings =
                   Append(@, [room_id |-> roomID, platform |-> platform,
                              platform_room_id |-> platformRoomID,
                              is_active |-> TRUE])],
        err |-> FALSE]

CreateOrGetRoomMapping(d, roomID, platform, platformRoomID, fault) ==
  LET i == FirstIndex(d.room_mappings,
             LAMBDA m : m.room_id = roomID /\ m.platform = platform
                        /\ m.platform_room_id = platformRoomID)
      \* UNIQUE(platform, platform_room_id)
      clash == \E k \in 1..Len(d.room_mappings) :
                 /\ d.room_mappings[k].platform = platform
                 /\ d.room_mappings[k].platform_room_id = platformRoomID
  IN
  IF fault THEN [db |-> d, err |-> TRUE]
  ELSE IF i # 0
    THEN [db  |-> [d EXCEPT !.room_mappings[i].is_active = TRUE],
          err |-> FALSE]
  ELSE IF clash THEN [db |-> d, err |-> TRUE]
  ELSE [db  |-> [d EXCEPT !.room_mappings =
                   Append(@, [room_id |-> roomID, platform |-> platform,
                              platform_room_id |-> platformRoomID,
                              is_active |-> TRUE])],
        err |-> FALSE]

GetRoomMappingByPlatformRoom(d, platform, platformRoomID, fault) ==
  LET i == FirstIndex(d.room_mappings,
             LAMBDA m : m.platform = platform
                        /\ m.platform_room_id = platformRoomID /\ m.is_active)
  IN
  IF fault \/ i = 0 THEN [err |-> TRUE, room_id |-> 0]
  ELSE [err |-> FALSE, room_id |-> d.room_mappings[i].room_id]

\* mutant: a hard delete of the rows
RemoveRoomMapping_Delete(d, roomID, platform, fault) ==
  IF fault THEN [db |-> d, err |-> TRUE]
  ELSE [db  |-> [d EXCEPT !.room_mappings =
                   SelectSeq(@, LAMBDA m : ~(m.room_id = roomID /\ m.platform = platform))],
        err |-> FALSE]

\* UPDATE room_mappings SET is_active = 0 WHERE room_id = ? AND platform = ?
RemoveRoomMapping(d, roomID, platform, fault) ==
  IF fault THEN [db |-> d, err |-> TRUE]
  ELSE [db  |-> [d EXCEPT !.room_mappings =
                   [k \in 1..Len(@) |->
                      IF @[k].room_id = roomID /\ @[k].platform = platform
                        THEN [@[k] EXCEPT !.is_active = FALSE]
                        ELSE @[k]]],
        err |-> FALSE]

CreateOrGetBridgeConfig(d, roomID, fault) ==
  LET i == FirstIndex(d.bridge_config, LAMBDA c : c.room_id = roomID) IN
  IF fault THEN [db |-> d, err |-> TRUE]
  ELSE IF i # 0 THEN [db |-> d, err |-> FALSE]
  ELSE [db  |-> [d EXCEPT !.bridge_config =
                   Append(@, [room_id |-> roomID, is_active |-> TRUE])],
        err |-> FALSE]


\* mutant: the query without its "rm.is_active = 1" condition
ActiveBridgeRows_AnyMapping(d) ==
  SelectSeq(d.room_mappings,
    LAMBDA m : \E k \in 1..Len(d.bridge_config) :
                 /\ d.bridge_config[k].room_id = m.room_id
                 /\ d.bridge_config[k].is_active)

\* result rows of the query of GetAllActiveBridges, in table order
ActiveBridgeRows(d) ==
  SelectSeq(d.room_mappings,
    LAMBDA m : /\ m.is_active
               /\ \E k \in 1..Len(d.bridge_config) :
                    /\ d.bridge_config[k].room_id = m.room_id
                    /\ d.bridge_config[k].is_active)

\* SQLite's BINARY collation on the two platform tags
PlatformRank(p) == IF p = PlatformDiscord THEN 1 ELSE 2

\* ORDER BY rm.room_id, rm.platform: every order of the rows that is sorted
\* on the two columns; rows that tie on both come in any order
QueryOrders(d) ==
  LET rows == ActiveBridgeRows(d)
      S    == {rows[i] : i \in 1..Len(rows)}
  IN {f \in Orders(S) :
        \A i \in 1..(Len(f) - 1) :
          \/ f[i].room_id < f[i + 1].room_id
          \/ /\ f[i].room_id = f[i + 1].room_id
             /\ PlatformRank(f[i].platform) <= PlatformRank(f[i + 1].platform)}

\* the rows that the loop "for rows.Next()" of GetAllActiveBridges has scanned
\* when the n+1st call of rows.Next() fails: Next() returns false on an error
\* as it does at the end of the result, and rows.Err() is never asked, so the
\* method returns the rows scanned so far with a nil error
ScannedRows(rows, n) == SubSeq(rows, 1, n)

\* the map platform_room_id -> rows that GetAllActiveBridges builds from the
\* result rows
GetAllActiveBridges(rows) ==
  [k \in {rows[i].platform_room_id : i \in 1..Len(rows)} |->
     SelectSeq(rows, LAMBDA m : m.platform_room_id = k)]

\* ------------------------------------------------------ Connection Graph
\* connections : Go map sourceChannelID -> slice of BridgeConnection, a
\* function whose domain is the set of keys present in the map
BridgeConnection(id, sp, sc, tp, tc) ==
  [ID |-> id, SourcePlatform |-> sp, SourceChannelID |-> sc,
   TargetPlatform |-> tp, TargetChannelID |-> tc, IsActive |-> TRUE]

\* GetBridges: a missing key reads as the nil slice
GetBridges(conns, channelID) ==
  IF channelID \in DOMAIN conns THEN conns[channelID] ELSE <<>>

\* bc.connections[key] = append(bc.connections[key], c) for every c of new
AppendAll(conns, new) ==
  [k \in DOMAIN conns \cup {new[i].SourceChannelID : i \in 1..Len(new)} |->
     GetBridges(conns, k) \o SelectSeq(new, LAMBDA c : c.SourceChannelID = k)]

DbConnectionID(roomID, source, target) ==
  "db_" \o Itoa(roomID) \o "_" \o source.platform \o "_" \o source.platform_room_id
        \o "_" \o target.platform \o "_" \o target.platform_room_id

\* mutant: the double loop without its "i == j" skip
RoomConnections_NoSkip(roomID, mappings) ==
  LET n == Len(mappings)
      pair(p) ==
        LET i == ((p - 1) \div n) + 1
            j == ((p - 1) % n) + 1
        IN << BridgeConnection(
                DbConnectionID(roomID, mappings[i], mappings[j]),
                mappings[i].platform, mappings[i].platform_room_id,
                mappings[j].platform, mappings[j].platform_room_id) >>
  IN IF n < 2 THEN <<>> ELSE Flatten([p \in 1..(n * n) |-> pair(p)])

\* mutant: the inner loop starting after i, one edge per unordered pair
RoomConnections_UpperOnly(roomID, mappings) ==
  LET n == Len(mappings)
      pair(p) ==
        LET i == ((p - 1) \div n) + 1
            j == ((p - 1) % n) + 1
        IN IF j <= i THEN <<>>
           ELSE << BridgeConnection(
                     DbConnectionID(roomID, mappings[i], mappings[j]),
                     mappings[i].platform, mappings[i].platform_room_id,
                     mappings[j].platform, mappings[j].platform_room_id) >>
  IN IF n < 2 THEN <<>> ELSE Flatten([p \in 1..(n * n) |-> pair(p)])

\* the connections of one room group, in the order the double loop makes them
RoomConnections(roomID, mappings) ==
  LET n == Len(mappings)
      pair(p) ==
        LET i == ((p - 1) \div n) + 1
            j == ((p - 1) % n) + 1
        IN IF i = j THEN <<>>
           ELSE << BridgeConnection(
                     DbConnectionID(roomID, mappings[i], mappings[j]),
                     mappings[i].platform, mappings[i].platform_room_id,
                     mappings[j].platform, mappings[j].platform_room_id) >>
  IN IF n < 2 THEN <<>> ELSE Flatten([p \in 1..(n * n) |-> pair(p)])

\* roomGroups of loadBridgesFromDB: the rows regrouped by room_id, ranging
\* over the map bridges in the order keyOrder
RoomGroups(bridges, keyOrder) ==
  LET flat == Flatten([i \in 1..Len(keyOrder) |-> bridges[keyOrder[i]]])
  IN [r \in {flat[i].room_id : i \in 1..Len(flat)} |->
        SelectSeq(flat, LAMBDA m : m.room_id = r)]

\* loadBridgesFromDB after a successful query: rows is the query result,
\* keyOrder and roomOrder the orders in which the two maps are ranged over
loadBridgesFromDB(conns, rows, keyOrder, roomOrder) ==
  LET groups == RoomGroups(GetAllActiveBridges(rows), keyOrder)
  IN AppendAll(conns,
       Flatten([k \in 1..Len(roomOrder) |->
                  RoomConnections(roomOrder[k], groups[roomOrder[k]])]))

ConnectionID(sp, sc, tp, tc) == sp \o "_" \o sc \o "_" \o tp \o "_" \o tc

\* mutant: the forward edge only
AddConnections_ForwardOnly(conns, sp, sc, tp, tc) ==
  AppendAll(conns,
    << BridgeConnection(ConnectionID(sp, sc, tp, tc), sp, sc, tp, tc) >>)

\* the in-memory part of AddBridge: forward edge, then reverse edge
AddConnections(conns, sp, sc, tp, tc) ==
  LET fwd == AppendAll(conns,
               << BridgeConnection(ConnectionID(sp, sc, tp, tc), sp, sc, tp, tc) >>)
  IN AppendAll(fwd,
       << BridgeConnection(ConnectionID(tp, tc, sp, sc), tp, tc, sp, sc) >>)

\* the names of the rooms of a store drawn for a rebuild, and the rows of
\* table rooms that saveBridgeToDatabase made
StoredRooms == {"room" \o Itoa(r) : r \in 1..MaxRooms}

BridgeRooms(d) == {i \in 1..Len(d.rooms) : d.rooms[i] \notin StoredRooms}

\* saveBridgeToDatabase: four store calls, returning at the first error;
\* failAt = the call that suffers an I/O error (0: none), calls = the number
\* of store calls made
saveBridgeToDatabase(d, sp, sc, tp, tc, failAt) ==
  LET room == CreateOrGetRoom(d, RoomName(sp, sc, tp, tc), failAt = 1)
      src  == CreateOrGetRoomMapping(room.db, room.id, sp, sc, failAt = 2)
      tgt  == CreateOrGetRoomMapping(src.db, room.id, tp, tc, failAt = 3)
      cfg  == CreateOrGetBridgeConfig(tgt.db, room.id, failAt = 4)
  IN IF room.err THEN [db |-> room.db, err |-> TRUE, calls |-> 1]
     ELSE IF src.err THEN [db |-> src.db, err |-> TRUE, calls |-> 2]
     ELSE IF tgt.err THEN [db |-> tgt.db, err |-> TRUE, calls |-> 3]
     ELSE [db |-> cfg.db, err |-> cfg.err, calls |-> 4]

\* removeBridgeFromDatabase: two store calls, returning at the first error
removeBridgeFromDatabase(d, sp, sc, tp, failAt) ==
  LET sourceMapping == GetRoomMappingByPlatformRoom(d, sp, sc, failAt = 1)
      removed       == RemoveRoomMapping(d, sourceMapping.room_id, tp, failAt = 2)
  IN IF sourceMapping.err THEN [db |-> d, err |-> TRUE, calls |-> 1]
     ELSE [db |-> removed.db, err |-> removed.err, calls |-> 2]

\* mutant: the first connection of the slice, whatever its target platform
FindConnection_First(conns, targetPlatform) == IF Len(conns) > 0 THEN 1 ELSE 0

\* the search loop of RemoveBridge: the position of the first connection of
\* the slice whose target platform is targetPlatform, 0 when there is none
FindConnection(conns, targetPlatform) ==
  FirstIndex(conns, LAMBDA c : c.TargetPlatform = targetPlatform)

\* the in-memory part of RemoveBridge once the forward edge, at position i
\* of the slice of sourceChannelID, is found
RemoveConnections(conns, sourceChannelID, i) ==
  LET conn    == conns[sourceChannelID][i]
      fwd     == [conns EXCEPT ![sourceChannelID] = RemoveAt(@, i)]
      reverse == GetBridges(fwd, conn.TargetChannelID)
      j       == FirstIndex(reverse,
                   LAMBDA r : /\ r.TargetChannelID = sourceChannelID
                              /\ r.TargetPlatform = conn.SourcePlatform)
  IN IF j = 0 THEN fwd
     ELSE [fwd EXCEPT ![conn.TargetChannelID] = RemoveAt(@, j)]

\* -------------------------------------------------------- message fan-out
\* the part of a BridgeMessage that routing looks at
BridgeMessage(sp, sc) ==
  [SourcePlatform |-> sp, SourceChannelID |-> sc, SourceUserID |-> "",
   Username |-> ""]

\* no message has been given to a fan-out
NoAttached == <<>>

Attached(message) == <<message.SourceUserID, message.Username>>

\* one call made on the adapter registered under tag adapter
AdapterCall(adapter, method, channelID, ok) ==
  [adapter |-> adapter, method |-> method, channelID |-> channelID, ok |-> ok]

\* the generic path: FormatMessage, then SendMessage to the target channel
GenericSend(conn, sendFails) ==
  << AdapterCall(conn.TargetPlatform, "FormatMessage", "", TRUE),
     AdapterCall(conn.TargetPlatform, "SendMessage", conn.TargetChannelID, ~sendFails) >>

\* the target adapter of conn is registered and its IsConnected() is true
Available(conn, registered, connected) ==
  conn.TargetPlatform \in registered /\ conn.TargetPlatform \in connected

\* mutant: the Discord path without the fallback to a regular message
Deliver_NoFallback(conn, registered, connected, richFails, sendFails) ==
  IF ~conn.IsActive
    THEN [connection |-> conn, available |-> FALSE, calls |-> <<>>,
          log |-> "inactive"]
  ELSE IF ~Available(conn, registered, connected)
    THEN [connection |-> conn, available |-> FALSE, calls |-> <<>>,
          log |-> "not available"]
  ELSE IF conn.TargetPlatform = PlatformDiscord
    THEN [connection |-> conn, available |-> TRUE,
          calls |-> << AdapterCall(PlatformDiscord, "SendBridgeMessage",
                                   conn.TargetChannelID, ~richFails) >>,
          log   |-> "bridged"]
  ELSE [connection |-> conn, available |-> TRUE,
        calls |-> GenericSend(conn, sendFails),
        log   |-> IF sendFails THEN "failed" ELSE "bridged"]

\* the body of the fan-out loop of ProcessMessage for one connection: the
\* connection, whether its target adapter was registered and connected, the
\* adapter calls made for it and the last line logged for it.
\* richFails / sendFails: SendBridgeMessage / SendMessage returns an error if
\* it is called.  The adapter registered as "discord" is a *DiscordAdapter
\* (cmd/bridge/main.go:103-104).  log is the last line the loop logs for the
\* connection: the error of the fallback SendMessage is assigned and never
\* read, so that path ends at "Message bridged" whatever it returned.
Deliver(conn, registered, connected, richFails, sendFails) ==
  IF ~conn.IsActive
    THEN [connection |-> conn, available |-> FALSE, calls |-> <<>>,
          log |-> "inactive"]
  ELSE IF ~Available(conn, registered, connected)
    THEN [connection |-> conn, available |-> FALSE, calls |-> <<>>,
          log |-> "not available"]
  ELSE IF conn.TargetPlatform = PlatformDiscord
    THEN [connection |-> conn, available |-> TRUE,
          calls |-> << AdapterCall(PlatformDiscord, "SendBridgeMessage",
                                   conn.TargetChannelID, ~richFails) >>
                    \o (IF richFails THEN GenericSend(conn, sendFails) ELSE <<>>),
          log   |-> "bridged"]
  ELSE [connection |-> conn, available |-> TRUE,
        calls |-> GenericSend(conn, sendFails),
        log   |-> IF sendFails THEN "failed" ELSE "bridged"]

\* the positions of conns at which the loop calls SendBridgeMessage, and at
\* which it calls SendMessage when SendBridgeMessage fails at richFails
RichCalled(conns, registered, connected) ==
  {i \in 1..Len(conns) : /\ conns[i].IsActive
                         /\ Available(conns[i], registered, connected)
                         /\ conns[i].TargetPlatform = PlatformDiscord}

SendCalled(conns, registered, connected, richFails) ==
  {i \in 1..Len(conns) : /\ conns[i].IsActive
                         /\ Available(conns[i], registered, connected)
                         /\ \/ conns[i].TargetPlatform # PlatformDiscord
                            \/ i \in richFails}

\* mutant: a fan-out that returns at the first connection it cannot serve
FanOut_StopAtFirstFailure(conns, registered, connected, richFails, sendFails) ==
  LET each == [i \in 1..Len(conns) |->
                 Deliver(conns[i], registered, connected,
                         i \in richFails, i \in sendFails)]
      bad(i) == ~each[i].available \/ each[i].log = "failed"
  IN [i \in 1..Len(conns) |->
        IF \E k \in 1..(i - 1) : bad(k)
          THEN [connection |-> conns[i], available |-> each[i].available,
                calls |-> <<>>, log |-> "aborted"]
          ELSE each[i]]

\* the fan-out loop of ProcessMessage over the routes of the source channel
FanOut(conns, registered, connected, richFails, sendFails) ==
  [i \in 1..Len(conns) |->
     Deliver(conns[i], registered, connected, i \in richFails, i \in sendFails)]

\* ------------------------------------------------------------ Bridge Core
VARIABLES
  platforms,     \* bc.platforms: the tags that have a registered adapter
  connections,   \* bc.connections
  db,            \* the Persistence Store behind bc.db
  last,          \* the last call made on the core and what it returned
  faults,        \* number of I/O errors the store has suffered
  sent,          \* what the last call did on the adapters, edge by edge
  added,         \* history: the bridges AddBridge has made and RemoveBridge
                 \* has not removed since
  cycle,         \* history: how far the last calls are into AddBridge(b),
                 \* RemoveBridge of b, AddBridge(b) again, all successful
  adapters,      \* bc.platforms: the adapter object stored under each tag
  userMappings,  \* bc.userMappings: platform -> userID -> displayName
  pc,            \* the statement each caller of the core is executing
  local,         \* per caller: the message in hand, the routes read for it,
                 \* the position of the fan-out loop, the sends that returned
  updatesChan,   \* c.updatesChan: the updates not yet received
  stopChan,      \* c.stopChan: "open" or "closed"
  isRunning,     \* c.isRunning
  handled,       \* history: the messages whose handling has returned
  attached,      \* the user id and the display name of the message that
                 \* the last fan-out was given
  supplied,      \* history: (platform, user id) -> the display name that
                 \* SetUserMapping was last called with in this process
  listeners      \* the listener goroutines of the Telegram client that were
                 \* started and have not returned

threadVars == <<pc, local, updatesChan, stopChan, isRunning, handled, listeners>>

vars == <<platforms, connections, db, last, faults, sent, added, cycle,
          adapters, userMappings, pc, local, updatesChan, stopChan,
          isRunning, handled, attached, supplied, listeners>>

\* main, the listener of the Telegram client, the goroutine in which the
\* Discord library runs onMessageCreate, and two in which it runs
\* onInteractionCreate
Threads == {"main", "listener", "discord", "command1", "command2"}

Commands == {"command1", "command2"}

\* conns: the routes as the fan-out read them; array: what the array behind
\* that slice holds now; tried: the connections a send was made for
NoMessage ==
  [update |-> 0, conns |-> <<>>, array |-> <<>>, i |-> 0, sends |-> 0,
   tried |-> <<>>, atStop |-> FALSE]

\* one caller at a time: no goroutine has been started
Sequential ==
  /\ pc = [t \in Threads |-> "none"]
  /\ local = [t \in Threads |-> NoMessage]
  /\ updatesChan = <<>>
  /\ stopChan = "open"
  /\ isRunning = FALSE
  /\ handled = {}
  /\ listeners = 0

\* an I/O error at store call failAt (0: none) counts as one fault
Fault(failAt) ==
  /\ failAt # 0 => faults < MaxFaults
  /\ faults' = IF failAt # 0 THEN faults + 1 ELSE faults

NoConnections == [k \in {} |-> <<>>]

\* the edges of a graph as a set: key of the map and the connection under it
EdgeSet(conns) ==
  UNION {{<<k, conns[k][i]>> : i \in 1..Len(conns[k])} : k \in DOMAIN conns}

\* the positions of all slices of the map
Edges(conns) == UNION {{<<k, i>> : i \in 1..Len(conns[k])} : k \in DOMAIN conns}

TotalBridges(conns) == Cardinality(Edges(conns))

\* the calls of AddBridge of which connection c is the forward or the
\* reverse edge
BridgesOf(c) ==
  {<<c.SourcePlatform, c.SourceChannelID, c.TargetPlatform, c.TargetChannelID>>,
   <<c.TargetPlatform, c.TargetChannelID, c.SourcePlatform, c.SourceChannelID>>}

\* sent: one entry per connection that a fan-out went through
NoFanout == <<>>

\* cycle.stage: 0 none, 1 after AddBridge(b), 2 after the RemoveBridge that
\* followed it, 3 after the AddBridge(b) that followed that; cycle.graph: the
\* graph as the first AddBridge(b) left it
NoCycle == [stage |-> 0, bridge |-> <<>>, graph |-> NoConnections]

AfterAdd(c, b) ==
  IF c.stage = 2 /\ c.bridge = b
    THEN [c EXCEPT !.stage = 3]
    ELSE [stage |-> 1, bridge |-> b, graph |-> NoConnections]

AfterRemove(c, conns, sourceChannelID, targetPlatform) ==
  IF c.stage \in {1, 3} /\ c.bridge[2] = sourceChannelID /\ c.bridge[3] = targetPlatform
    THEN [stage |-> 2, bridge |-> c.bridge, graph |-> conns]
    ELSE NoCycle

\* a Go map without keys
EmptyMap == [k \in {} |-> 0]

\* an adapter object: what GetName() returns and which object it is
Adapter(name, id) == [name |-> name, id |-> id]

GetName(platform) == platform.name

\* the adapters main makes, one per platform (NewTelegramAdapter,
\* NewDiscordAdapter), and all adapter objects there can be
MainAdapters == {Adapter(name, 1) : name \in PlatformTags}

AllAdapters == {Adapter(name, id) : name \in PlatformTags, id \in 1..NumAdapters}

\* m[key] = value on a Go map
MapSet(m, key, value) ==
  [k \in DOMAIN m \cup {key} |-> IF k = key THEN value ELSE m[k]]

\* op: the method called, err: the error it returned ("nil": none),
\* dbErr: whether a store call made by it failed
Call(op, err, dbErr) == [op |-> op, err |-> err, dbErr |-> dbErr]

Init ==
  /\ platforms = {}
  /\ connections = NoConnections
  /\ db = EmptyDB
  /\ last = Call("NewBridgeCore", "nil", FALSE)
  /\ faults = 0
  /\ sent = NoFanout
  /\ added = {}
  /\ cycle = NoCycle
  /\ adapters = EmptyMap
  /\ userMappings = EmptyMap
  /\ attached = NoAttached
  /\ supplied = EmptyMap
  /\ Sequential

\* NewBridgeCore on the store as it is: a start of the process.  A failed
\* load (failAt = 1: the query of GetAllActiveBridges suffers an I/O error) is
\* logged and the core is returned with the empty graph.  failAt = 2: the I/O
\* error comes while the result is stepped through, after n rows; the load
\* goes on with the rows scanned and reports nothing.
NewBridgeCore(failAt) ==
  /\ platforms' = {}
  /\ db' = db
  /\ Fault(failAt)
  /\ sent' = NoFanout
  /\ UNCHANGED threadVars
  /\ attached' = NoAttached
  /\ supplied' = EmptyMap
  /\ cycle' = NoCycle
  /\ adapters' = EmptyMap
  /\ userMappings' = EmptyMap
  /\ UNCHANGED added
  /\ \/ /\ failAt = 1
        /\ connections' = NoConnections
        /\ last' = Call("NewBridgeCore", "nil", TRUE)
     \/ \E rows \in QueryOrders(db) :
          \E keyOrder \in Orders(DOMAIN GetAllActiveBridges(rows)) :
            \E roomOrder \in Orders(DOMAIN RoomGroups(GetAllActiveBridges(rows), keyOrder)) :
              /\ failAt = 0
              /\ connections' = loadBridgesFromDB(NoConnections, rows, keyOrder, roomOrder)
              /\ last' = Call("NewBridgeCore", "nil", FALSE)
     \/ \E all \in QueryOrders(db) :
          \E n \in 0..Len(all) :
            LET rows == ScannedRows(all, n) IN
            \E keyOrder \in Orders(DOMAIN GetAllActiveBridges(rows)) :
              \E roomOrder \in Orders(DOMAIN RoomGroups(GetAllActiveBridges(rows), keyOrder)) :
                /\ failAt = 2
                /\ connections' = loadBridgesFromDB(NoConnections, rows, keyOrder, roomOrder)
                /\ last' = Call("NewBridgeCore", "nil", TRUE)

\* mutant: RegisterPlatform that makes a new bucket at every call
RegisterPlatform_ResetBucket(platform) ==
  /\ platforms' = platforms \cup {GetName(platform)}
  /\ adapters' = MapSet(adapters, GetName(platform), platform.id)
  /\ userMappings' = MapSet(userMappings, GetName(platform), EmptyMap)
  /\ last' = Call("RegisterPlatform", "nil", FALSE)
  /\ sent' = NoFanout
  /\ UNCHANGED threadVars
  /\ attached' = NoAttached
  /\ UNCHANGED supplied
  /\ cycle' = NoCycle
  /\ UNCHANGED <<connections, db, faults, added>>

RegisterPlatform(platform) ==
  /\ platforms' = platforms \cup {GetName(platform)}
  /\ adapters' = MapSet(adapters, GetName(platform), platform.id)
  /\ userMappings' = IF GetName(platform) \in DOMAIN userMappings
                       THEN userMappings
                       ELSE MapSet(userMappings, GetName(platform), EmptyMap)
  /\ last' = Call("RegisterPlatform", "nil", FALSE)
  /\ sent' = NoFanout
  /\ UNCHANGED threadVars
  /\ attached' = NoAttached
  /\ UNCHANGED supplied
  /\ cycle' = NoCycle
  /\ UNCHANGED <<connections, db, faults, added>>

\* mutant: the validation of AddBridge without its second test
PlatformsRegistered_SourceOnly(registered, sp, tp) == sp \in registered

\* the validation of AddBridge: both platforms have an adapter
PlatformsRegistered(registered, sp, tp) == sp \in registered /\ tp \in registered

\* mutant: AddBridge that goes on to the graph after a failed save, the way
\* RemoveBridge does
AddBridge_IgnoreSaveError(sp, sc, tp, tc, failAt) ==
  LET saved == saveBridgeToDatabase(db, sp, sc, tp, tc, failAt) IN
  /\ UNCHANGED <<platforms, adapters, userMappings>>
  /\ Fault(failAt)
  /\ sent' = NoFanout
  /\ UNCHANGED threadVars
  /\ attached' = NoAttached
  /\ UNCHANGED supplied
  /\ IF ~PlatformsRegistered(platforms, sp, tp)
       THEN /\ failAt = 0
            /\ last' = Call("AddBridge", "unknown platform", FALSE)
            /\ cycle' = NoCycle
            /\ UNCHANGED <<connections, db, added>>
       ELSE /\ failAt <= saved.calls
            /\ Cardinality(BridgeRooms(saved.db)) <= MaxRooms
            /\ db' = saved.db
            /\ TotalBridges(connections) + 2 <= 2 * MaxBridges
            /\ connections' = AddConnections(connections, sp, sc, tp, tc)
            /\ added' = added \cup {<<sp, sc, tp, tc>>}
            /\ cycle' = AfterAdd(cycle, <<sp, sc, tp, tc>>)
            /\ last' = Call("AddBridge", "nil", saved.err)

AddBridge(sp, sc, tp, tc, failAt) ==
  LET saved == saveBridgeToDatabase(db, sp, sc, tp, tc, failAt) IN
  /\ UNCHANGED <<platforms, adapters, userMappings>>
  /\ Fault(failAt)
  /\ sent' = NoFanout
  /\ UNCHANGED threadVars
  /\ attached' = NoAttached
  /\ UNCHANGED supplied
  /\ IF ~PlatformsRegistered(platforms, sp, tp)
       THEN /\ failAt = 0
            /\ last' = Call("AddBridge", "unknown platform", FALSE)
            /\ cycle' = NoCycle
            /\ UNCHANGED <<connections, db, added>>
       ELSE /\ failAt <= saved.calls
            /\ Cardinality(BridgeRooms(saved.db)) <= MaxRooms
            /\ db' = saved.db
            /\ IF saved.err
                 THEN /\ last' = Call("AddBridge", "save failed", TRUE)
                      /\ cycle' = NoCycle
                      /\ UNCHANGED <<connections, added>>
                 ELSE /\ TotalBridges(connections) + 2 <= 2 * MaxBridges
                      /\ connections' = AddConnections(connections, sp, sc, tp, tc)
                      /\ added' = added \cup {<<sp, sc, tp, tc>>}
                      /\ cycle' = AfterAdd(cycle, <<sp, sc, tp, tc>>)
                      /\ last' = Call("AddBridge", "nil", FALSE)

RemoveBridge(sourceChannelID, targetPlatform, failAt) ==
  LET conns == GetBridges(connections, sourceChannelID)
      i     == FindConnection(conns, targetPlatform)
      gone  == removeBridgeFromDatabase(db, conns[i].SourcePlatform,
                                        sourceChannelID, targetPlatform, failAt)
  IN
  /\ UNCHANGED <<platforms, adapters, userMappings>>
  /\ Fault(failAt)
  /\ sent' = NoFanout
  /\ UNCHANGED threadVars
  /\ attached' = NoAttached
  /\ UNCHANGED supplied
  /\ IF sourceChannelID \notin DOMAIN connections \/ i = 0
       THEN /\ failAt = 0
            /\ last' = Call("RemoveBridge", "bridge not found", FALSE)
            /\ cycle' = NoCycle
            /\ UNCHANGED <<connections, db, added>>
       ELSE /\ failAt <= gone.calls
            /\ connections' = RemoveConnections(connections, sourceChannelID, i)
            /\ db' = gone.db
            /\ added' = added \ BridgesOf(conns[i])
            /\ cycle' = AfterRemove(cycle, connections, sourceChannelID, targetPlatform)
            /\ last' = Call("RemoveBridge", "nil", gone.err)

\* mutant: ProcessMessage that returns the error of a send that failed
ProcessMessage_ReturnSendError(message, connected, richFails, sendFails) ==
  LET conns == GetBridges(connections, message.SourceChannelID) IN
  /\ connected \subseteq platforms
  /\ richFails \subseteq RichCalled(conns, platforms, connected)
  /\ sendFails \subseteq SendCalled(conns, platforms, connected, richFails)
  /\ Cardinality(richFails) + Cardinality(sendFails) <= MaxSendFaults
  /\ sent' = FanOut(conns, platforms, connected, richFails, sendFails)
  /\ UNCHANGED threadVars
  /\ attached' = Attached(message)
  /\ UNCHANGED supplied
  /\ last' = Call("ProcessMessage",
                  IF sendFails # {} THEN "send failed" ELSE "nil", FALSE)
  /\ cycle' = NoCycle
  /\ UNCHANGED <<platforms, connections, db, faults, added, adapters,
                userMappings>>

\* mutant: ProcessMessage that treats a channel without routes as an error,
\* the way RemoveBridge does
ProcessMessage_NoRoutesError(message, connected, richFails, sendFails) ==
  LET conns == GetBridges(connections, message.SourceChannelID) IN
  /\ connected \subseteq platforms
  /\ richFails \subseteq RichCalled(conns, platforms, connected)
  /\ sendFails \subseteq SendCalled(conns, platforms, connected, richFails)
  /\ Cardinality(richFails) + Cardinality(sendFails) <= MaxSendFaults
  /\ sent' = FanOut(conns, platforms, connected, richFails, sendFails)
  /\ UNCHANGED threadVars
  /\ attached' = Attached(message)
  /\ UNCHANGED supplied
  /\ last' = Call("ProcessMessage",
                  IF Len(conns) = 0 THEN "no bridges found" ELSE "nil", FALSE)
  /\ cycle' = NoCycle
  /\ UNCHANGED <<platforms, connections, db, faults, added, adapters,
                userMappings>>

\* ProcessMessage.  connected: the registered adapters whose IsConnected()
\* is true during the call; richFails, sendFails: the positions of the routes
\* at which SendBridgeMessage / SendMessage returns an error.
ProcessMessage(message, connected, richFails, sendFails) ==
  LET conns == GetBridges(connections, message.SourceChannelID) IN
  /\ connected \subseteq platforms
  /\ richFails \subseteq RichCalled(conns, platforms, connected)
  /\ sendFails \subseteq SendCalled(conns, platforms, connected, richFails)
  /\ Cardinality(richFails) + Cardinality(sendFails) <= MaxSendFaults
  /\ sent' = FanOut(conns, platforms, connected, richFails, sendFails)
  /\ UNCHANGED threadVars
  /\ attached' = Attached(message)
  /\ UNCHANGED supplied
  /\ last' = Call("ProcessMessage", "nil", FALSE)
  /\ cycle' = NoCycle
  /\ UNCHANGED <<platforms, connections, db, faults, added, adapters,
                userMappings>>

\* mutant: the name of the user id on whichever platform has one
getDisplayName_AnyPlatform(um, platform, userID) ==
  IF \E p \in DOMAIN um : userID \in DOMAIN um[p]
    THEN um[CHOOSE p \in DOMAIN um : userID \in DOMAIN um[p]][userID]
    ELSE userID

\* getDisplayName: the name stored for the user id in the bucket of the
\* platform, the user id itself when there is none
getDisplayName(um, platform, userID) ==
  IF platform \in DOMAIN um /\ userID \in DOMAIN um[platform]
    THEN um[platform][userID]
    ELSE userID

\* ProcessMessageLegacy: returns at once when the channel has no connection,
\* else builds the message and calls ProcessMessage
ProcessMessageLegacy(sourcePlatform, channelID, userID, connected, richFails, sendFails) ==
  IF Len(GetBridges(connections, channelID)) = 0
    THEN /\ connected = {} /\ richFails = {} /\ sendFails = {}
         /\ sent' = NoFanout
         /\ UNCHANGED threadVars
         /\ attached' = NoAttached
         /\ UNCHANGED supplied
         /\ last' = Call("ProcessMessageLegacy", "nil", FALSE)
         /\ cycle' = NoCycle
         /\ UNCHANGED <<platforms, connections, db, faults, added, adapters,
                userMappings>>
    ELSE ProcessMessage(
           [BridgeMessage(sourcePlatform, channelID) EXCEPT
              !.SourceUserID = userID,
              !.Username = getDisplayName(userMappings, sourcePlatform, userID)],
           connected, richFails, sendFails)

\* SetUserMapping: makes the bucket of the platform when there is none, then
\* stores the name under the user id; the arguments are not looked at
SetUserMapping(platform, userID, displayName) ==
  /\ userMappings' =
       MapSet(userMappings, platform,
         MapSet(IF platform \in DOMAIN userMappings
                  THEN userMappings[platform] ELSE EmptyMap,
                userID, displayName))
  /\ last' = Call("SetUserMapping", "nil", FALSE)
  /\ sent' = NoFanout
  /\ UNCHANGED threadVars
  /\ attached' = NoAttached
  /\ supplied' = MapSet(supplied, <<platform, userID>>, displayName)
  /\ cycle' = NoCycle
  /\ UNCHANGED <<platforms, adapters, connections, db, faults, added>>

\* Spec: the calls of the core, restarts of the process included, on a store
\* that suffers no I/O error (its statements still fail on a UNIQUE
\* violation or a missing row).
Next ==
  \/ NewBridgeCore(0)
  \/ \E platform \in MainAdapters : RegisterPlatform(platform)
  \/ \E sp, tp \in PlatformTags, sc, tc \in ChannelIDs : AddBridge(sp, sc, tp, tc, 0)
  \/ \E sc \in ChannelIDs, tp \in PlatformTags : RemoveBridge(sc, tp, 0)

Spec == Init /\ [][Next]_vars

\* SpecIO: one run of the process on a store of which up to MaxFaults
\* statements suffer an I/O error.
NextIO ==
  \/ \E platform \in MainAdapters : RegisterPlatform(platform)
  \/ \E sp, tp \in PlatformTags, sc, tc \in ChannelIDs, failAt \in 0..4 :
       AddBridge(sp, sc, tp, tc, failAt)
  \/ \E sc \in ChannelIDs, tp \in PlatformTags, failAt \in 0..2 :
       RemoveBridge(sc, tp, failAt)

SpecIO == Init /\ [][NextIO]_vars

\* SpecMsg: one run of the process in which inbound messages are given to
\* ProcessMessage between the bridge commands; the store suffers no I/O
\* error.
\* the outcomes the adapters can give to a fan-out over conns: which adapters
\* are connected and which of the calls made fail
Outcomes(conns) ==
  UNION {UNION {{<<connected, richFails, sendFails>> :
                   sendFails \in SUBSET SendCalled(conns, platforms, connected, richFails)} :
                richFails \in SUBSET RichCalled(conns, platforms, connected)} :
         connected \in SUBSET platforms}

NextMsg ==
  \/ \E platform \in MainAdapters : RegisterPlatform(platform)
  \/ \E sp, tp \in PlatformTags, sc, tc \in ChannelIDs : AddBridge(sp, sc, tp, tc, 0)
  \/ \E sc \in ChannelIDs, tp \in PlatformTags : RemoveBridge(sc, tp, 0)
  \/ \E sp \in PlatformTags, sc \in ChannelIDs :
       \E o \in Outcomes(GetBridges(connections, sc)) :
         ProcessMessage(BridgeMessage(sp, sc), o[1], o[2], o[3])

SpecMsg == Init /\ [][NextMsg]_vars

\* SpecBoot: a process that is restarted: NewBridgeCore loads the bridges
\* before any adapter is registered (cmd/bridge/main.go:41, 75, 104), so a
\* message can meet a route whose target platform has no adapter.  The
\* platform clients hand their inbound messages to ProcessMessageLegacy
\* (cmd/bridge/main.go:70, 99).
NextBoot ==
  \/ NewBridgeCore(0)
  \/ \E platform \in MainAdapters : RegisterPlatform(platform)
  \/ \E sp, tp \in PlatformTags, sc, tc \in ChannelIDs : AddBridge(sp, sc, tp, tc, 0)
  \/ \E sp \in PlatformTags, sc \in ChannelIDs :
       \E o \in Outcomes(GetBridges(connections, sc)) :
         ProcessMessageLegacy(sp, sc, "u1", o[1], o[2], o[3])

SpecBoot == Init /\ [][NextBoot]_vars

\* SpecRestart: the calls of the core and restarts of the process, of which
\* up to MaxFaults find the store unreadable while the bridges are loaded.
NextRestart ==
  \/ \E failAt \in 0..2 : NewBridgeCore(failAt)
  \/ \E platform \in MainAdapters : RegisterPlatform(platform)
  \/ \E sp, tp \in PlatformTags, sc, tc \in ChannelIDs : AddBridge(sp, sc, tp, tc, 0)
  \/ \E sc \in ChannelIDs, tp \in PlatformTags : RemoveBridge(sc, tp, 0)

SpecRestart == Init /\ [][NextRestart]_vars

\* SpecUsers: one run of the process in which adapters are registered, and
\* registered again, while the handlers store display names.  One bridge,
\* made the way the /bridge command makes it, from a Discord channel
\* (cmd/bridge/main.go:903), is enough of a graph for a run about the registry
\* and the cache.
NextUsers ==
  \/ \E platform \in AllAdapters : RegisterPlatform(platform)
  \/ \E platform \in PlatformTags \cup {""}, userID \in UserIDs,
        displayName \in DisplayNames :
       SetUserMapping(platform, userID, displayName)
  \/ AddBridge(PlatformDiscord, "1", PlatformTelegram, "2", 0)

SpecUsers == Init /\ [][NextUsers]_vars

\* SpecNames: one run of the process in which the handlers store display
\* names and hand their messages to ProcessMessageLegacy
\* (cmd/bridge/main.go:68-70, 674-682), over one bridge, while every
\* registered adapter is connected and no send fails.
NextNames ==
  \/ \E platform \in MainAdapters : RegisterPlatform(platform)
  \/ \E platform \in PlatformTags, userID \in UserIDs,
        displayName \in DisplayNames :
       SetUserMapping(platform, userID, displayName)
  \/ AddBridge(PlatformDiscord, "1", PlatformTelegram, "2", 0)
  \/ \E sp \in PlatformTags, sc \in ChannelIDs, userID \in UserIDs :
       ProcessMessageLegacy(sp, sc, userID, platforms, {}, {})

SpecNames == Init /\ [][NextNames]_vars

\* --------------------------------------------------------------- claims
\* a call of AddBridge / RemoveBridge with these arguments, whatever the store
\* does during it
AddBridgeCall(sp, sc, tp, tc) == \E failAt \in 0..4 : AddBridge(sp, sc, tp, tc, failAt)

RemoveBridgeCall(sc, tp) == \E failAt \in 0..2 : RemoveBridge(sc, tp, failAt)

\* the routes of source channel sc hold an active edge with target (tp, tc)
HasActiveEdge(conns, sc, tp, tc) ==
  \E i \in 1..Len(GetBridges(conns, sc)) :
    /\ GetBridges(conns, sc)[i].TargetPlatform = tp
    /\ GetBridges(conns, sc)[i].TargetChannelID = tc
    /\ GetBridges(conns, sc)[i].IsActive

\* the routes of source channel sc hold an edge whose target platform is tp
HasEdgeTo(conns, sc, tp) ==
  \E i \in 1..Len(GetBridges(conns, sc)) : GetBridges(conns, sc)[i].TargetPlatform = tp

\* C1: after AddBridge(A, c1, B, c2) returned success the routes of c1 hold an
\* active edge with target (B, c2) and the routes of c2 hold an active edge
\* with target (A, c1).
C1_AddBridgeBidirectional ==
  [][(last'.op = "AddBridge" /\ last'.err = "nil") =>
       \A sp, tp \in PlatformTags, sc, tc \in ChannelIDs :
         AddBridgeCall(sp, sc, tp, tc)
           => /\ HasActiveEdge(connections', sc, tp, tc)
              /\ HasActiveEdge(connections', tc, sp, sc)]_vars

C1_Witness ==
  /\ last.op = "AddBridge" /\ last.err = "nil"
  /\ \E sc, tc \in ChannelIDs :
       /\ HasActiveEdge(connections, sc, PlatformTelegram, tc)
       /\ HasActiveEdge(connections, tc, PlatformDiscord, sc)

\* C2: after a successful AddBridge(A, c1, B, c2), a RemoveBridge(c1, B) that
\* returns success leaves the routes of c1 without an edge whose target
\* platform is B and the routes of c2 without an edge whose target platform
\* is A.  The step is the RemoveBridge; the call before it was the successful
\* AddBridge, whose two edges carry the identifiers AddBridge gave them.
C2_RemoveBridgeSymmetric ==
  [][(last.op = "AddBridge" /\ last.err = "nil"
       /\ last'.op = "RemoveBridge" /\ last'.err = "nil") =>
     \A sp, tp \in PlatformTags, sc, tc \in ChannelIDs :
       ( /\ sp # tp
         /\ \E i \in 1..Len(GetBridges(connections, sc)) :
              GetBridges(connections, sc)[i] =
                BridgeConnection(ConnectionID(sp, sc, tp, tc), sp, sc, tp, tc)
         /\ \E i \in 1..Len(GetBridges(connections, tc)) :
              GetBridges(connections, tc)[i] =
                BridgeConnection(ConnectionID(tp, tc, sp, sc), tp, tc, sp, sc)
         /\ RemoveBridgeCall(sc, tp) )
         => /\ ~HasEdgeTo(connections', sc, tp)
            /\ ~HasEdgeTo(connections', tc, sp)]_vars

\* C3: if the persistence step of AddBridge fails, AddBridge returns an error
\* and the Connection Graph is as it was before the call.
C3_AddBridgeSaveFailureKeepsGraph ==
  [][(last'.op = "AddBridge" /\ last'.dbErr)
       => /\ last'.err = "save failed"
          /\ connections' = connections]_vars

C3_Witness ==
  /\ last.op = "AddBridge" /\ last.dbErr /\ last.err = "save failed"
  /\ TotalBridges(connections) > 0

\* C4: if the store write of RemoveBridge fails, RemoveBridge reports an error
\* to its caller and the Connection Graph is as it was before the call.
C4_RemoveBridgeStoreFailureReported ==
  [][(last'.op = "RemoveBridge" /\ last'.dbErr)
       => /\ last'.err # "nil"
          /\ connections' = connections]_vars

\* C5: whenever AddBridge returns a persistence error the store holds no row
\* and no active flag that it did not hold before the call.
C5_AddBridgeStoreAllOrNothing ==
  [][(last'.op = "AddBridge" /\ last'.err = "save failed") => db' = db]_vars

\* C6: AddBridge whose source or target platform has no registered adapter
\* returns the unknown-platform error, writes nothing to the store and leaves
\* the Connection Graph as it was.
C6_AddBridgeUnknownPlatform ==
  [][last'.op = "AddBridge" =>
       \A sp, tp \in PlatformTags :
         (sp \notin platforms \/ tp \notin platforms) =>
           \A sc, tc \in ChannelIDs :
             AddBridgeCall(sp, sc, tp, tc)
               => /\ last'.err = "unknown platform"
                  /\ db' = db
                  /\ connections' = connections]_vars

C6_Witness ==
  /\ last.op = "AddBridge" /\ last.err = "unknown platform"
  /\ platforms # {} /\ platforms # PlatformTags
  /\ TotalBridges(connections) > 0

\* C7: RemoveBridge(c, P) on a graph without an edge from source channel c to
\* target platform P returns the bridge-not-found error and changes neither
\* the store nor the Connection Graph.
C7_RemoveBridgeNotFound ==
  [][last'.op = "RemoveBridge" =>
       \A sc \in ChannelIDs, tp \in PlatformTags :
         (~HasEdgeTo(connections, sc, tp) /\ RemoveBridgeCall(sc, tp))
           => /\ last'.err = "bridge not found"
              /\ db' = db
              /\ connections' = connections]_vars

C7_Witness ==
  /\ last.op = "RemoveBridge" /\ last.err = "bridge not found"
  /\ TotalBridges(connections) > 0

\* C8: in every reachable state no edge of the Connection Graph has a target
\* (platform, channel) equal to its own source (platform, channel).
C8_NoSelfLoop ==
  \A e \in EdgeSet(connections) :
    <<e[2].SourcePlatform, e[2].SourceChannelID>>
      # <<e[2].TargetPlatform, e[2].TargetChannelID>>

\* ------------------------------------------- rebuild from any store state
\* The rebuild as a function of the store: the store is drawn from the states
\* the schema admits (UNIQUE(platform, platform_room_id) on room_mappings,
\* UNIQUE(room_id) on bridge_config), and the core is constructed on it,
\* again and again.
Endpoints == PlatformTags \X ChannelIDs

SetToSeq(S) == CHOOSE f \in Orders(S) : TRUE

LoadStore(K, room, active, cfg) ==
  LET keys   == SetToSeq(K)
      withCf == SetToSeq({r \in 1..MaxRooms : cfg[r] # "none"})
  IN [rooms         |-> [r \in 1..MaxRooms |-> "room" \o Itoa(r)],
      room_mappings |-> [i \in 1..Len(keys) |->
                           [room_id          |-> room[keys[i]],
                            platform         |-> keys[i][1],
                            platform_room_id |-> keys[i][2],
                            is_active        |-> active[keys[i]]]],
      bridge_config |-> [i \in 1..Len(withCf) |->
                           [room_id   |-> withCf[i],
                            is_active |-> cfg[withCf[i]] = "active"]]]

InitLoad ==
  /\ \E K \in SUBSET Endpoints :
       /\ Cardinality(K) <= MaxRows
       /\ \E room \in [K -> 1..MaxRooms], active \in [K -> BOOLEAN],
             cfg \in [1..MaxRooms -> {"none", "active", "inactive"}] :
            db = LoadStore(K, room, active, cfg)
  /\ platforms = {}
  /\ connections = NoConnections
  /\ last = Call("NewDatabase", "nil", FALSE)
  /\ faults = 0
  /\ sent = NoFanout
  /\ added = {}
  /\ cycle = NoCycle
  /\ adapters = EmptyMap
  /\ userMappings = EmptyMap
  /\ attached = NoAttached
  /\ supplied = EmptyMap
  /\ Sequential

NextLoad == \E failAt \in 0..2 : NewBridgeCore(failAt)

SpecLoad == InitLoad /\ [][NextLoad]_vars

\* SpecReload: the process started on a store that holds rooms of up to
\* MaxRows mappings; the bridges are loaded before any other call of the core
\* (cmd/bridge/main.go:41), and the store suffers no I/O error.  Bridges are
\* added the way the /bridge command adds them, from a Discord channel
\* (cmd/bridge/main.go:903), here to a Telegram chat.
NextReload ==
  \/ NewBridgeCore(0)
  \/ /\ last.op # "NewDatabase"
     /\ \E platform \in MainAdapters : RegisterPlatform(platform)
  \/ /\ last.op # "NewDatabase"
     /\ AddBridge(PlatformDiscord, "1", PlatformTelegram, "1", 0)
  \/ /\ last.op # "NewDatabase"
     /\ \E sc \in ChannelIDs, tp \in PlatformTags : RemoveBridge(sc, tp, 0)

SpecReload == InitLoad /\ [][NextReload]_vars

\* the active mappings of room r, and whether its bridge config is active
ActiveMappings(d, r) ==
  {d.room_mappings[i] : i \in {k \in 1..Len(d.room_mappings) :
                                 /\ d.room_mappings[k].room_id = r
                                 /\ d.room_mappings[k].is_active}}

ConfigActive(d, r) ==
  \E k \in 1..Len(d.bridge_config) :
    d.bridge_config[k].room_id = r /\ d.bridge_config[k].is_active

\* the positions of the graph that hold an edge from mapping s to mapping t
EdgesBetween(conns, s, t) ==
  {p \in Edges(conns) :
     /\ conns[p[1]][p[2]].SourcePlatform = s.platform
     /\ conns[p[1]][p[2]].SourceChannelID = s.platform_room_id
     /\ conns[p[1]][p[2]].TargetPlatform = t.platform
     /\ conns[p[1]][p[2]].TargetChannelID = t.platform_room_id}

\* the positions that hold an edge whose source is a mapping of M
EdgesFrom(conns, M) ==
  {p \in Edges(conns) :
     \E s \in M : /\ conns[p[1]][p[2]].SourcePlatform = s.platform
                  /\ conns[p[1]][p[2]].SourceChannelID = s.platform_room_id}

Rebuilt == last.op = "NewBridgeCore" /\ ~last.dbErr

\* C9: for every room with N >= 2 active mappings and an active bridge config
\* the graph rebuilt from the store holds exactly N * (N - 1) directed edges of
\* that room, one per ordered pair of distinct mappings, and none from a
\* mapping to itself.
C9_RebuildPairCount ==
  Rebuilt =>
    \A r \in 1..Len(db.rooms) :
      LET M == ActiveMappings(db, r) IN
      (Cardinality(M) >= 2 /\ ConfigActive(db, r)) =>
        /\ Cardinality(EdgesFrom(connections, M)) = Cardinality(M) * (Cardinality(M) - 1)
        /\ \A s, t \in M :
             Cardinality(EdgesBetween(connections, s, t)) = IF s = t THEN 0 ELSE 1

C9_Witness ==
  /\ Rebuilt
  /\ \E r \in 1..Len(db.rooms) :
       /\ Cardinality(ActiveMappings(db, r)) >= 3
       /\ ConfigActive(db, r)
       /\ Cardinality(EdgesFrom(connections, ActiveMappings(db, r))) >= 6

\* C10: two rebuilds from the same store state produce the same edge set
\* (same key, endpoints and identifier for every edge), whatever the order of
\* the rows that tie in the query and the orders in which the maps are ranged.
C10_RebuildDeterministic ==
  [][(Rebuilt /\ Rebuilt' /\ db' = db)
       => EdgeSet(connections') = EdgeSet(connections)]_vars

C10_Witness ==
  /\ Rebuilt
  /\ Cardinality(DOMAIN connections) >= 2
  /\ \E k \in DOMAIN connections :
       \E i, j \in 1..Len(connections[k]) :
         connections[k][i].SourcePlatform # connections[k][j].SourcePlatform

\* all mappings of room r, active or not
RoomMappings(d, r) ==
  {d.room_mappings[i] : i \in {k \in 1..Len(d.room_mappings) :
                                 d.room_mappings[k].room_id = r}}

\* C11: the rebuilt graph holds an edge between two channels only if both
\* channels have an active room mapping, the two mappings are of the same room
\* and that room's bridge config is active; a room with fewer than two active
\* mappings, or without an active config, contributes no edge.
C11_RebuildOnlyActiveSameRoom ==
  Rebuilt =>
    /\ \A e \in EdgeSet(connections) :
         \E i, j \in 1..Len(db.room_mappings) :
           /\ i # j
           /\ db.room_mappings[i].platform = e[2].SourcePlatform
           /\ db.room_mappings[i].platform_room_id = e[2].SourceChannelID
           /\ db.room_mappings[j].platform = e[2].TargetPlatform
           /\ db.room_mappings[j].platform_room_id = e[2].TargetChannelID
           /\ db.room_mappings[i].is_active
           /\ db.room_mappings[j].is_active
           /\ db.room_mappings[i].room_id = db.room_mappings[j].room_id
           /\ ConfigActive(db, db.room_mappings[i].room_id)
    /\ \A r \in 1..Len(db.rooms) :
         (Cardinality(ActiveMappings(db, r)) < 2 \/ ~ConfigActive(db, r))
           => EdgesFrom(connections, RoomMappings(db, r)) = {}

\* a rebuild that made edges for a room which also has an inactive mapping,
\* from a store that has a second room with an active mapping
C11_Witness ==
  /\ Rebuilt
  /\ \E r \in 1..Len(db.rooms) :
       /\ ConfigActive(db, r)
       /\ Cardinality(ActiveMappings(db, r)) = 2
       /\ RoomMappings(db, r) # ActiveMappings(db, r)
       /\ Cardinality(EdgesFrom(connections, ActiveMappings(db, r))) = 2

\* the graph holds an active edge from (sp, sc) to (tp, tc)
HasBridgeEdge(conns, sp, sc, tp, tc) ==
  \E e \in EdgeSet(conns) :
    /\ e[1] = sc
    /\ e[2].SourcePlatform = sp /\ e[2].SourceChannelID = sc
    /\ e[2].TargetPlatform = tp /\ e[2].TargetChannelID = tc
    /\ e[2].IsActive

\* C12: a graph rebuilt from the store (a restart) holds the forward and the
\* reverse edge of every bridge that AddBridge has made with success and for
\* which no RemoveBridge has succeeded since.
C12_AddedBridgeSurvivesRestart ==
  Rebuilt =>
    \A b \in added :
      /\ HasBridgeEdge(connections, b[1], b[2], b[3], b[4])
      /\ HasBridgeEdge(connections, b[3], b[4], b[1], b[2])

\* ------------------------------------------------------- fan-out claims
\* the calls of entry e that are a delivery attempt to the target channel of
\* its connection
Attempts(e) ==
  {k \in 1..Len(e.calls) :
     /\ e.calls[k].method \in {"SendBridgeMessage", "SendMessage"}
     /\ e.calls[k].adapter = e.connection.TargetPlatform
     /\ e.calls[k].channelID = e.connection.TargetChannelID}

\* C13: ProcessMessage goes through every route of the source channel, and
\* for every active route whose target adapter is registered and connected it
\* makes a delivery attempt to the route's target channel, whatever happened
\* at the other routes (adapter missing or disconnected, send failed).
C13_FanOutReachesEveryAvailableEdge ==
  (last.op = "ProcessMessage" /\ sent # NoFanout) =>
    LET conns == GetBridges(connections, sent[1].connection.SourceChannelID) IN
    /\ Len(sent) = Len(conns)
    /\ \A i \in 1..Len(conns) :
         /\ sent[i].connection = conns[i]
         /\ sent[i].available => conns[i].TargetPlatform \in platforms
         /\ (conns[i].IsActive /\ sent[i].available) => Attempts(sent[i]) # {}

\* a fan-out with a route whose target platform has no adapter, a route whose
\* SendMessage failed, and, after either, a route that got its attempt
C13_Witness ==
  /\ last.op = "ProcessMessage"
  /\ \E i, j \in 1..Len(sent) :
       /\ i < j
       /\ \/ sent[i].connection.TargetPlatform \notin platforms
          \/ sent[i].log = "failed"
       /\ Attempts(sent[j]) # {}
  /\ \E i \in 1..Len(sent) : sent[i].connection.TargetPlatform \notin platforms

\* the positions of the calls of entry e made with method m
CallsOf(e, m) == {k \in 1..Len(e.calls) : e.calls[k].method = m}

RichFailed(e) == \E k \in CallsOf(e, "SendBridgeMessage") : ~e.calls[k].ok

RichSucceeded(e) == \E k \in CallsOf(e, "SendBridgeMessage") : e.calls[k].ok

MessageCall(sp, sc, connected) ==
  \E richFails \in SUBSET RichCalled(GetBridges(connections, sc), platforms, connected) :
    \E sendFails \in SUBSET SendCalled(GetBridges(connections, sc), platforms,
                                       connected, richFails) :
      \/ ProcessMessage(BridgeMessage(sp, sc), connected, richFails, sendFails)
      \/ \E userID \in UserIDs :
           ProcessMessageLegacy(sp, sc, userID, connected, richFails, sendFails)

MessageOps == {"ProcessMessage", "ProcessMessageLegacy"}

\* the graph is one bridge, made by AddBridge(sp, sc, tp, tc), between two
\* distinct endpoints
SingleBridge(conns, sp, sc, tp, tc) ==
  /\ <<sp, sc>> # <<tp, tc>>
  /\ TotalBridges(conns) = 2
  /\ EdgeSet(conns) =
       {<<sc, BridgeConnection(ConnectionID(sp, sc, tp, tc), sp, sc, tp, tc)>>,
        <<tc, BridgeConnection(ConnectionID(tp, tc, sp, sc), tp, tc, sp, sc)>>}

\* the routes of a fan-out for which a delivery attempt was made
Attempted(fanout) == {i \in 1..Len(fanout) : Attempts(fanout[i]) # {}}

\* C15: with a single bridge between (P, c) and (Q, d) and both adapters
\* connected, a message from (P, c) makes a delivery attempt for exactly one
\* route, addressed to (Q, d); and once RemoveBridge(c, Q) has returned success
\* on that graph, a message from channel c makes no delivery attempt, whichever
\* adapters are connected.
C15_SingleBridgeOneDelivery ==
  [][/\ (last'.op \in MessageOps /\ TotalBridges(connections) = 2) =>
          \A sp, tp \in PlatformTags, sc, tc \in ChannelIDs :
            ( /\ SingleBridge(connections, sp, sc, tp, tc)
              /\ MessageCall(sp, sc, {sp, tp}) )
              => /\ Cardinality(Attempted(sent')) = 1
                 /\ \A i \in Attempted(sent') :
                      /\ sent'[i].connection.TargetPlatform = tp
                      /\ sent'[i].connection.TargetChannelID = tc
     /\ (last'.op = "RemoveBridge" /\ last'.err = "nil"
           /\ TotalBridges(connections) = 2) =>
          \A sp, tp \in PlatformTags, sc, tc \in ChannelIDs :
            ( /\ SingleBridge(connections, sp, sc, tp, tc)
              /\ RemoveBridgeCall(sc, tp) )
              => \A connected \in SUBSET platforms' :
                   Attempted(FanOut(GetBridges(connections', sc), platforms',
                                    connected, {}, {})) = {}]_vars

\* C16: ProcessMessage (and ProcessMessageLegacy) for a source channel that
\* has no route, the key being absent or its slice emptied by RemoveBridge,
\* returns success and calls no method of any adapter.
C16_NoRoutesNoOp ==
  [][last'.op \in MessageOps =>
       \A sp \in PlatformTags, sc \in ChannelIDs :
         ( /\ Len(GetBridges(connections, sc)) = 0
           /\ \E connected \in SUBSET platforms : MessageCall(sp, sc, connected) )
           => /\ last'.err = "nil"
              /\ \A i \in 1..Len(sent') : sent'[i].calls = <<>>]_vars

\* a message for a channel whose routes RemoveBridge has emptied, while
\* another channel still has routes and both adapters are registered
C16_Witness ==
  /\ last.op \in MessageOps /\ last.err = "nil"
  /\ sent = NoFanout
  /\ platforms = PlatformTags
  /\ \E sc \in DOMAIN connections : connections[sc] = <<>>
  /\ TotalBridges(connections) > 0

\* C17: a message from (P, c), P a platform with a registered adapter, is
\* delivered only over edges whose source platform is P and whose source
\* channel is c.
C17_RoutesBySourcePlatformAndChannel ==
  [][last'.op \in MessageOps =>
       \A sp \in platforms, sc \in ChannelIDs :
         (\E connected \in SUBSET platforms : MessageCall(sp, sc, connected))
           => \A i \in Attempted(sent') :
                /\ sent'[i].connection.SourcePlatform = sp
                /\ sent'[i].connection.SourceChannelID = sc]_vars

\* ------------------------------------------------------- store claims
\* the connection that RemoveBridge(sc, tp) finds in the graph conns
RemovedConnection(conns, sc, tp) ==
  GetBridges(conns, sc)[FindConnection(GetBridges(conns, sc), tp)]

\* C18: a successful RemoveBridge(c, P) changes in the store nothing but the
\* room mapping of the removed edge's target channel: every other mapping, the
\* source channel's own mapping included, is as it was.
C18_RemoveBridgeDeactivatesTargetOnly ==
  [][(last'.op = "RemoveBridge" /\ last'.err = "nil") =>
       \A sc \in ChannelIDs, tp \in PlatformTags :
         RemoveBridgeCall(sc, tp) =>
           /\ Len(db'.room_mappings) = Len(db.room_mappings)
           /\ \A k \in 1..Len(db.room_mappings) :
                db'.room_mappings[k] # db.room_mappings[k] =>
                  /\ db.room_mappings[k].platform = tp
                  /\ db.room_mappings[k].platform_room_id =
                       RemovedConnection(connections, sc, tp).TargetChannelID]_vars

\* C19: no call of the core deletes a persisted row: at every step the rows of
\* rooms and of room_mappings that were there are still there, with the same
\* room, platform and channel, and RemoveBridge adds no row and changes a
\* mapping only by setting its active flag to false.
C19_NoHardDelete ==
  [][/\ Len(db'.rooms) >= Len(db.rooms)
     /\ \A k \in 1..Len(db.rooms) : db'.rooms[k] = db.rooms[k]
     /\ Len(db'.room_mappings) >= Len(db.room_mappings)
     /\ \A k \in 1..Len(db.room_mappings) :
          \E a \in BOOLEAN :
            db'.room_mappings[k] = [db.room_mappings[k] EXCEPT !.is_active = a]
     /\ last'.op = "RemoveBridge" =>
          /\ Len(db'.room_mappings) = Len(db.room_mappings)
          /\ \A k \in 1..Len(db.room_mappings) :
               \/ db'.room_mappings[k] = db.room_mappings[k]
               \/ db'.room_mappings[k] =
                    [db.room_mappings[k] EXCEPT !.is_active = FALSE]]_vars

\* RemoveBridge has deactivated a mapping of a store that holds two rooms
C19_Witness ==
  /\ last.op = "RemoveBridge" /\ last.err = "nil" /\ ~last.dbErr
  /\ Len(db.rooms) = 2
  /\ \E k \in 1..Len(db.room_mappings) : ~db.room_mappings[k].is_active
  /\ \E k \in 1..Len(db.room_mappings) : db.room_mappings[k].is_active

\* C20: in every reachable store state no two rows of room_mappings, active
\* or not, have the same (platform, platform channel id): a channel is in at
\* most one room, and an AddBridge that would bind a mapped channel to a
\* second room leaves it with its one mapping.
C20_ChannelInOneRoom ==
  \A i, j \in 1..Len(db.room_mappings) :
    ( /\ db.room_mappings[i].platform = db.room_mappings[j].platform
      /\ db.room_mappings[i].platform_room_id = db.room_mappings[j].platform_room_id )
      => i = j

\* AddBridge has tried to bind a channel, mapped in the first room, to a
\* second room: the call failed on the constraint, with no I/O error
C20_Witness ==
  /\ last.op = "AddBridge" /\ last.err = "save failed"
  /\ faults = 0
  /\ Len(db.rooms) = 2
  /\ \A k \in 1..Len(db.room_mappings) : db.room_mappings[k].room_id = 1

\* ------------------------------------------------ add / remove / add again
\* the endpoints of a connection: source (platform, channel) and target
\* (platform, channel)
Route(c) ==
  <<c.SourcePlatform, c.SourceChannelID, c.TargetPlatform, c.TargetChannelID>>

Reverse(r) == <<r[3], r[4], r[1], r[2]>>

RouteSet(conns) == {Route(e[2]) : e \in EdgeSet(conns)}

\* how many edges of the graph run between the endpoints r
RouteCount(conns, r) ==
  Cardinality({p \in Edges(conns) : Route(conns[p[1]][p[2]]) = r})

\* two graphs hold edges between the same endpoints, the same number of times
SameRoutes(c1, c2) ==
  /\ RouteSet(c1) = RouteSet(c2)
  /\ \A r \in RouteSet(c1) : RouteCount(c1, r) = RouteCount(c2, r)

\* the rows of room_mappings for channel (platform, platformRoomID)
MappingRows(d, platform, platformRoomID) ==
  {k \in 1..Len(d.room_mappings) :
     /\ d.room_mappings[k].platform = platform
     /\ d.room_mappings[k].platform_room_id = platformRoomID}

\* the rows of rooms with this name
RoomRows(d, name) == {r \in 1..Len(d.rooms) : d.rooms[r] = name}

\* C21: after AddBridge(A, c1, B, c2), RemoveBridge(c1, B) and AddBridge(A, c1,
\* B, c2) again, called one after the other and all returning success, the
\* store holds one room of the bridge and both channels have their one mapping
\* active in that room, and the graph holds the edges it held after the first
\* AddBridge, between the same endpoints and each as many times.
C21_ReAddRestoresBridge ==
  cycle.stage = 3 =>
    LET b == cycle.bridge IN
    /\ Cardinality(RoomRows(db, RoomName(b[1], b[2], b[3], b[4]))) = 1
    /\ \A ep \in {<<b[1], b[2]>>, <<b[3], b[4]>>} :
         /\ Cardinality(MappingRows(db, ep[1], ep[2])) = 1
         /\ \A k \in MappingRows(db, ep[1], ep[2]) :
              /\ db.room_mappings[k].is_active
              /\ db.room_mappings[k].room_id \in RoomRows(db, RoomName(b[1], b[2], b[3], b[4]))
    /\ SameRoutes(connections, cycle.graph)

\* the same for a cycle that starts on a graph in which no other edge sits
\* under the source channel id of the bridge
C21_ReAddOwnKey ==
  (cycle.stage = 3
     /\ \A e \in EdgeSet(cycle.graph) :
          e[1] = cycle.bridge[2] =>
            <<e[2].SourcePlatform, e[2].TargetPlatform, e[2].TargetChannelID>>
              = <<cycle.bridge[1], cycle.bridge[3], cycle.bridge[4]>>)
    => C21_ReAddRestoresBridge

\* ------------------------------------------------------- failed rebuild
\* C22: when the store cannot be read while NewBridgeCore loads the bridges,
\* the core is constructed with the empty Connection Graph: no edge of a
\* partly read result is in it.
C22_FailedLoadEmptyGraph ==
  (last.op = "NewBridgeCore" /\ last.dbErr) => connections = NoConnections

\* the rest of C22: on a core that was constructed while the store could not
\* be read, AddBridge has succeeded
C22_AddBridgeAfterFailedLoad ==
  /\ last.op = "AddBridge" /\ last.err = "nil"
  /\ faults = 1
  /\ Len(db.rooms) = 2
  /\ TotalBridges(connections) = 2
  /\ \A k \in 1..Len(db.room_mappings) : db.room_mappings[k].is_active

\* ------------------------------------------- display names and registry
\* a call of SetUserMapping / RegisterPlatform with these arguments
SetUserMappingCall(platform, userID, displayName) ==
  SetUserMapping(platform, userID, displayName)

\* the (platform, userID) pairs that have a cache entry
CacheEntries(um) ==
  UNION {{<<p, u>> : u \in DOMAIN um[p]} : p \in DOMAIN um}

\* C26: SetUserMapping(platform, userID, name) with a non-empty platform and a
\* non-empty user id makes name the cached display name of (platform, userID),
\* in place of any earlier one, and leaves every other entry as it was; with an
\* empty platform or an empty user id it adds no cache entry.
C26_SetUserMappingUpsertValidated ==
  [][last'.op = "SetUserMapping" =>
       \A platform \in PlatformTags \cup {""}, userID \in UserIDs,
          displayName \in DisplayNames :
         SetUserMappingCall(platform, userID, displayName) =>
           IF platform = "" \/ userID = ""
             THEN CacheEntries(userMappings') = CacheEntries(userMappings)
             ELSE /\ getDisplayName(userMappings', platform, userID) = displayName
                  /\ CacheEntries(userMappings') =
                       CacheEntries(userMappings) \cup {<<platform, userID>>}
                  /\ \A e \in CacheEntries(userMappings) \ {<<platform, userID>>} :
                       userMappings'[e[1]][e[2]] = userMappings[e[1]][e[2]]]_vars

\* the upsert alone, whatever the arguments
C26_SetUserMappingUpsert ==
  [][last'.op = "SetUserMapping" =>
       \A platform \in PlatformTags \cup {""}, userID \in UserIDs,
          displayName \in DisplayNames :
         SetUserMappingCall(platform, userID, displayName) =>
           /\ userMappings'[platform][userID] = displayName
           /\ CacheEntries(userMappings') =
                CacheEntries(userMappings) \cup {<<platform, userID>>}
           /\ \A e \in CacheEntries(userMappings) \ {<<platform, userID>>} :
                userMappings'[e[1]][e[2]] = userMappings[e[1]][e[2]]]_vars

RegisterPlatformCall(platform) == RegisterPlatform(platform)

\* C27: RegisterPlatform stores the adapter under its platform tag, in place of
\* an adapter registered there before, and leaves the adapters of the other
\* tags; it makes an empty display-name bucket for the tag only when there is
\* none, so a registration of a tag that has a bucket leaves every display
\* name as it was; the Connection Graph and the store are as they were.
C27_RegisterPlatformFrame ==
  [][last'.op = "RegisterPlatform" =>
       \A platform \in AllAdapters :
         RegisterPlatformCall(platform) =>
           LET name == GetName(platform) IN
           /\ platforms' = platforms \cup {name}
           /\ DOMAIN adapters' = DOMAIN adapters \cup {name}
           /\ adapters'[name] = platform.id
           /\ \A k \in DOMAIN adapters \ {name} : adapters'[k] = adapters[k]
           /\ IF name \in DOMAIN userMappings
                THEN userMappings' = userMappings
                ELSE /\ DOMAIN userMappings' = DOMAIN userMappings \cup {name}
                     /\ userMappings'[name] = EmptyMap
                     /\ \A k \in DOMAIN userMappings : userMappings'[k] = userMappings[k]
           /\ connections' = connections
           /\ db' = db]_vars

\* a registration of a tag that was registered before (the bridge between the
\* two platforms was made earlier), with display names cached for both
\* platforms and the adapter of each tag the second object
C27_Witness ==
  /\ last.op = "RegisterPlatform"
  /\ TotalBridges(connections) > 0
  /\ \A name \in PlatformTags :
       /\ name \in DOMAIN adapters /\ adapters[name] = 2
       /\ name \in DOMAIN userMappings /\ userMappings[name] # EmptyMap

\* ------------------------------------------------ graph against the store
\* the graphs that a rebuild from store d can produce
Rebuilds(d) ==
  UNION {UNION {{loadBridgesFromDB(NoConnections, rows, keyOrder, roomOrder) :
                   roomOrder \in Orders(DOMAIN RoomGroups(GetAllActiveBridges(rows), keyOrder))} :
                keyOrder \in Orders(DOMAIN GetAllActiveBridges(rows))} :
         rows \in QueryOrders(d)}

\* C28: after every AddBridge or RemoveBridge that returned success on a store
\* that works, the graph holds edges between the same (source endpoint, target
\* endpoint) pairs as a rebuild from the store as it is now.
C28_GraphMatchesStore ==
  (last.op \in {"AddBridge", "RemoveBridge"} /\ last.err = "nil" /\ ~last.dbErr) =>
    \A rebuilt \in Rebuilds(db) : RouteSet(connections) = RouteSet(rebuilt)

RemovedPair(before, after, f) ==
  \A r \in RouteSet(before) \cup RouteSet(after) :
    RouteCount(after, r) = RouteCount(before, r)
                             - (IF r = f THEN 1 ELSE 0)
                             - (IF r = Reverse(f) THEN 1 ELSE 0)

HandlerPositions ==
  {"SetUserMapping", "GetBridges", "ProcessMessageLegacy", "getDisplayName",
   "ProcessMessage", "platforms", "send"}

\* the message a caller hands to the core
Inbound(t) ==
  IF t = "listener"
    THEN [platform |-> PlatformTelegram, channelID |-> "2", userID |-> "u1",
          displayName |-> "name1"]
    ELSE [platform |-> PlatformDiscord, channelID |-> "1", userID |-> "u1",
          displayName |-> "name2"]

\* the maps of the core that caller t is inside, and how
Access(t) ==
  CASE pc[t] \in {"RegisterTelegram", "RegisterDiscord"} ->
         {<<"platforms", "write">>, <<"userMappings", "write">>}
    [] pc[t] = "SetUserMapping" -> {<<"userMappings", "write">>}
    [] pc[t] \in {"GetBridges", "ProcessMessageLegacy", "ProcessMessage"} ->
         {<<"connections", "read">>}
    [] pc[t] = "getDisplayName" -> {<<"userMappings", "read">>}
    [] pc[t] = "platforms" -> {<<"platforms", "read">>}
    [] pc[t] = "AddBridge" -> {<<"platforms", "read">>}
    [] pc[t] \in {"RemoveBridge", "readForward", "readReverse"} ->
         {<<"connections", "read">>}
    [] pc[t] \in {"appendForward", "appendReverse", "removeForward",
                  "removeReverse"} -> {<<"connections", "write">>}
    [] OTHER -> {}

\* callers t1 and t2 are inside the same map and one of them writes it
Race(t1, t2) ==
  /\ t1 # t2
  /\ \E a \in Access(t1), b \in Access(t2) :
       a[1] = b[1] /\ "write" \in {a[2], b[2]}

\* the update ids and event numbers given out so far
Seen(t) ==
  {local[t].update} \cup {h[2] : h \in {x \in handled : x[1] = t}}
    \cup (IF t = "listener" THEN {updatesChan[k] : k \in 1..Len(updatesChan)}
                            ELSE {})

Max(S) == CHOOSE m \in S : \A n \in S : n <= m

\* the process ends: every goroutine ends with it, wherever it is
Exit ==
  [t \in Threads |->
     IF pc[t] \in HandlerPositions THEN "killed"
     ELSE IF pc[t] = "stopped" THEN "stopped"
     ELSE "exited"]

InitConc ==
  /\ db = saveBridgeToDatabase(EmptyDB, PlatformDiscord, "1",
                               PlatformTelegram, "2", 0).db
  /\ connections \in Rebuilds(db)
  /\ platforms = {}
  /\ last = Call("NewBridgeCore", "nil", FALSE)
  /\ faults = 0
  /\ sent = NoFanout
  /\ added = {}
  /\ cycle = NoCycle
  /\ adapters = EmptyMap
  /\ userMappings = EmptyMap
  /\ attached = NoAttached
  /\ supplied = EmptyMap
  /\ pc = [t \in Threads |->
             IF t = "main" THEN "RegisterTelegram"
             ELSE IF t = "discord" THEN "idle" ELSE "none"]
  /\ local = [t \in Threads |-> NoMessage]
  /\ updatesChan = <<>>
  /\ stopChan = "open"
  /\ isRunning = FALSE
  /\ handled = {}
  /\ listeners = 0

\* main: bridgeCore.RegisterPlatform(telegramAdapter), and later
\* bridgeCore.RegisterPlatform(discordAdapter)
MainRegisterPlatform ==
  /\ pc["main"] \in {"RegisterTelegram", "RegisterDiscord"}
  /\ LET platform == Adapter(IF pc["main"] = "RegisterTelegram"
                               THEN PlatformTelegram ELSE PlatformDiscord, 1)
     IN /\ platforms' = platforms \cup {GetName(platform)}
        /\ adapters' = MapSet(adapters, GetName(platform), platform.id)
        /\ userMappings' = IF GetName(platform) \in DOMAIN userMappings
                             THEN userMappings
                             ELSE MapSet(userMappings, GetName(platform), EmptyMap)
  /\ pc' = [pc EXCEPT !["main"] = IF @ = "RegisterTelegram" THEN "Start"
                                                            ELSE "Connect"]
  /\ UNCHANGED <<connections, db, last, faults, sent, added, cycle, attached, supplied, listeners, local,
                 updatesChan, stopChan, isRunning, handled>>

\* Client.Start: the listener goroutine is spawned and the library begins to
\* put updates on updatesChan
Start ==
  /\ pc["main"] = "Start"
  /\ ~isRunning
  /\ isRunning' = TRUE
  /\ listeners' = listeners + 1
  /\ pc' = [pc EXCEPT !["main"] = "RegisterDiscord", !["listener"] = "select"]
  /\ UNCHANGED <<platforms, connections, db, last, faults, sent, added, cycle, attached, supplied,
                 adapters, userMappings, local, updatesChan, stopChan, handled>>

\* discordClient.Connect: from here on the library dispatches events
Connect ==
  /\ pc["main"] = "Connect"
  /\ pc' = [pc EXCEPT !["main"] = "wait"]
  /\ UNCHANGED <<platforms, connections, db, last, faults, sent, added, cycle, attached, supplied, listeners,
                 adapters, userMappings, local, updatesChan, stopChan,
                 isRunning, handled>>

\* <-stop: an interrupt or SIGTERM arrives
Signal ==
  /\ pc["main"] = "wait"
  /\ pc' = [pc EXCEPT !["main"] = "Stop"]
  /\ UNCHANGED <<platforms, connections, db, last, faults, sent, added, cycle, attached, supplied, listeners,
                 adapters, userMappings, local, updatesChan, stopChan,
                 isRunning, handled>>

\* Client.Stop: the library stops receiving, stopChan is closed.
\* local["listener"].atStop records that an update was being handled when
\* Stop was called.
Stop ==
  /\ pc["main"] = "Stop"
  /\ IF isRunning
       THEN /\ isRunning' = FALSE
            /\ stopChan' = "closed"
            /\ local' = [local EXCEPT !["listener"].atStop =
                                        pc["listener"] \in HandlerPositions]
       ELSE UNCHANGED <<isRunning, stopChan, local>>
  /\ pc' = [pc EXCEPT !["main"] = "Disconnect"]
  /\ UNCHANGED <<platforms, connections, db, last, faults, sent, added, cycle, attached, supplied, listeners,
                 adapters, userMappings, updatesChan, handled>>

\* discordClient.Disconnect: no event is dispatched any more
Disconnect ==
  /\ pc["main"] = "Disconnect"
  /\ pc' = [pc EXCEPT !["main"] = "return"]
  /\ UNCHANGED <<platforms, connections, db, last, faults, sent, added, cycle, attached, supplied, listeners,
                 adapters, userMappings, local, updatesChan, stopChan,
                 isRunning, handled>>

\* main returns without waiting for any goroutine: the process ends
MainReturn ==
  /\ pc["main"] = "return"
  /\ pc' = Exit
  /\ listeners' = 0
  /\ UNCHANGED <<platforms, connections, db, last, faults, sent, added, cycle, attached, supplied,
                 adapters, userMappings, local, updatesChan, stopChan,
                 isRunning, handled>>

\* the Telegram library puts one more update on updatesChan
UpdateArrives ==
  /\ isRunning
  /\ Max(Seen("listener")) < MaxUpdates
  /\ updatesChan' = Append(updatesChan, Max(Seen("listener")) + 1)
  /\ UNCHANGED <<platforms, connections, db, last, faults, sent, added, cycle, attached, supplied, listeners,
                 adapters, userMappings, pc, local, stopChan, isRunning,
                 handled>>

\* select, case update := <-c.updatesChan: handleUpdate is called, and
\* through it the handler
ReceiveUpdate ==
  /\ pc["listener"] = "select"
  /\ updatesChan # <<>>
  /\ updatesChan' = Tail(updatesChan)
  /\ local' = [local EXCEPT !["listener"] =
                 [NoMessage EXCEPT !.update = Head(updatesChan)]]
  /\ pc' = [pc EXCEPT !["listener"] = "SetUserMapping"]
  /\ UNCHANGED <<platforms, connections, db, last, faults, sent, added, cycle, attached, supplied, listeners,
                 adapters, userMappings, stopChan, isRunning, handled>>

\* select, case <-c.stopChan: the listener returns
ReceiveStop ==
  /\ pc["listener"] = "select"
  /\ stopChan = "closed"
  /\ pc' = [pc EXCEPT !["listener"] = "stopped"]
  /\ listeners' = listeners - 1
  /\ UNCHANGED <<platforms, connections, db, last, faults, sent, added, cycle, attached, supplied,
                 adapters, userMappings, local, updatesChan, stopChan,
                 isRunning, handled>>

\* the Discord library calls onMessageCreate for a message of a user
onMessageCreate ==
  /\ pc["main"] \in {"wait", "Stop", "Disconnect"}
  /\ pc["discord"] = "idle"
  /\ Max(Seen("discord")) < MaxEvents
  /\ local' = [local EXCEPT !["discord"] =
                 [NoMessage EXCEPT !.update = Max(Seen("discord")) + 1]]
  /\ pc' = [pc EXCEPT !["discord"] = "SetUserMapping"]
  /\ UNCHANGED <<platforms, connections, db, last, faults, sent, added, cycle, attached, supplied, listeners,
                 adapters, userMappings, updatesChan, stopChan, isRunning,
                 handled>>

\* the handler of caller t returns
Return(t, sends) ==
  /\ handled' = handled \cup {<<t, local[t].update, sends>>}
  /\ local' = [local EXCEPT ![t] = NoMessage]
  /\ pc' = [pc EXCEPT ![t] = IF t = "listener" THEN "select" ELSE "idle"]

\* the fan-out loop of ProcessMessage goes on to connection i of the routes
\* it read, or ends
Loop(t, conns, i, sends) ==
  IF i <= Len(conns)
    THEN /\ local' = [local EXCEPT ![t].conns = conns, ![t].i = i,
                                   ![t].sends = sends,
                                   ![t].array = IF i = 1 THEN conns ELSE @]
         /\ pc' = [pc EXCEPT ![t] = "platforms"]
         /\ UNCHANGED handled
    ELSE Return(t, sends)

\* caller t leaves the statement of the handler it is in; the send to an
\* adapter is left by SendReturn
HandlerStep(t) ==
  LET m == Inbound(t) IN
  /\ pc[t] \in HandlerPositions \ {"send"}
  /\ userMappings' =
       IF pc[t] = "SetUserMapping"
         THEN MapSet(userMappings, m.platform,
                MapSet(IF m.platform \in DOMAIN userMappings
                         THEN userMappings[m.platform] ELSE EmptyMap,
                       m.userID, m.displayName))
         ELSE userMappings
  /\ CASE pc[t] = "SetUserMapping" ->
            /\ pc' = [pc EXCEPT ![t] = IF t = "discord" THEN "GetBridges"
                                       ELSE "ProcessMessageLegacy"]
            /\ UNCHANGED <<local, handled>>
       [] pc[t] = "GetBridges" ->
            IF Len(GetBridges(connections, m.channelID)) > 0
              THEN /\ pc' = [pc EXCEPT ![t] = "ProcessMessageLegacy"]
                   /\ UNCHANGED <<local, handled>>
              ELSE Return(t, 0)
       [] pc[t] = "ProcessMessageLegacy" ->
            IF Len(GetBridges(connections, m.channelID)) = 0
              THEN Return(t, 0)
              ELSE /\ pc' = [pc EXCEPT ![t] = "getDisplayName"]
                   /\ UNCHANGED <<local, handled>>
       [] pc[t] = "getDisplayName" ->
            /\ pc' = [pc EXCEPT ![t] = "ProcessMessage"]
            /\ UNCHANGED <<local, handled>>
       [] pc[t] = "ProcessMessage" ->
            Loop(t, GetBridges(connections, m.channelID), 1, 0)
       [] pc[t] = "platforms" ->
            LET connection == local[t].array[local[t].i] IN
            \E connected \in BOOLEAN :
              IF /\ connection.IsActive
                 /\ connection.TargetPlatform \in platforms
                 /\ connected
                THEN /\ pc' = [pc EXCEPT ![t] = "send"]
                     /\ local' = [local EXCEPT ![t].tried = Append(@, connection)]
                     /\ UNCHANGED handled
                ELSE Loop(t, local[t].conns, local[t].i + 1, local[t].sends)
  /\ UNCHANGED <<platforms, connections, db, last, faults, sent, added, cycle, attached, supplied, listeners,
                 adapters, updatesChan, stopChan, isRunning>>

\* the adapter's send (SendBridgeMessage, SendMessage) returns to caller t,
\* with or without an error
SendReturn(t) ==
  /\ pc[t] = "send"
  /\ Loop(t, local[t].conns, local[t].i + 1, local[t].sends + 1)
  /\ UNCHANGED <<platforms, connections, db, last, faults, sent, added, cycle, attached, supplied, listeners,
                 adapters, userMappings, updatesChan, stopChan, isRunning>>

\* the runtime finds two goroutines inside one map: fatal error
Throw ==
  /\ \E t1, t2 \in Threads : Race(t1, t2)
  /\ pc' = Exit
  /\ listeners' = 0
  /\ UNCHANGED <<platforms, connections, db, last, faults, sent, added, cycle, attached, supplied,
                 adapters, userMappings, local, updatesChan, stopChan,
                 isRunning, handled>>

NextConc ==
  \/ MainRegisterPlatform
  \/ Start
  \/ Connect
  \/ Signal
  \/ Stop
  \/ Disconnect
  \/ MainReturn
  \/ UpdateArrives
  \/ ReceiveUpdate
  \/ ReceiveStop
  \/ onMessageCreate
  \/ \E t \in {"listener", "discord"} : HandlerStep(t)
  \/ \E t \in {"listener", "discord"} : SendReturn(t)
  \/ Throw

SpecConc == InitConc /\ [][NextConc]_vars

\* C23: no state is reachable in which one caller writes the Connection
\* Graph, the display-name cache or the adapter registry while another
\* caller reads or writes it.
C23_MutualExclusion ==
  \A t1, t2 \in Threads : ~Race(t1, t2)

\* SpecLive: SpecConc under the scheduling of the Go runtime: a goroutine that
\* can take a step takes one.  Nothing is assumed of what the process waits
\* for: a signal, an update, a Discord event, the return of a send.
MainStep ==
  \/ MainRegisterPlatform
  \/ Start
  \/ Connect
  \/ Stop
  \/ Disconnect
  \/ MainReturn

SpecLive ==
  /\ InitConc
  /\ [][NextConc]_vars
  /\ WF_vars(MainStep)
  /\ WF_vars(ReceiveUpdate \/ ReceiveStop)
  /\ \A t \in {"listener", "discord"} : WF_vars(HandlerStep(t))

\* the process is shutting down, or has ended
ShuttingDown == pc["main"] \in {"Stop", "Disconnect", "return", "exited"}

\* the handling of message u of caller t has returned
Handled(t, u) == \E h \in handled : h[1] = t /\ h[2] = u

\* C24: while the fan-out of one inbound message is blocked inside a send, a
\* later inbound message of another source is still processed, to completion
\* or to a send of its own: a later update of the same listener, and a Discord
\* event that has reached its handler.
C24_SendDoesNotBlockOthers ==
  /\ \A u \in 1..MaxUpdates :
       (/\ pc["listener"] = "send"
        /\ \E k \in 1..Len(updatesChan) : updatesChan[k] = u)
         ~> \/ Handled("listener", u)
            \/ pc["listener"] = "send" /\ local["listener"].update = u
            \/ ShuttingDown
  /\ \A e \in 1..MaxEvents :
       (/\ pc["listener"] = "send"
        /\ pc["discord"] \in HandlerPositions \ {"send"}
        /\ local["discord"].update = e)
         ~> (Handled("discord", e) \/ pc["discord"] = "send" \/ ShuttingDown)

\* the part of C24 that is about another event stream: a Discord event is
\* processed while the Telegram listener is inside a send
C24_OtherStreamProceeds ==
  \A e \in 1..MaxEvents :
    (/\ pc["listener"] = "send"
     /\ pc["discord"] \in HandlerPositions \ {"send"}
     /\ local["discord"].update = e)
      ~> (Handled("discord", e) \/ pc["discord"] = "send" \/ ShuttingDown)

\* C25: after Stop the update listener eventually terminates, and an update
\* whose handling was in progress when Stop was called is handled to the end.
\* (No update arrives on updatesChan after Stop in this model.)
C25_StopDrains ==
  /\ (stopChan = "closed") ~> (pc["listener"] \in {"stopped", "exited", "killed"})
  /\ [](~(pc["listener"] = "killed" /\ local["listener"].atStop))

\* the part of C25 that is about termination
C25_ListenerTerminates ==
  (stopChan = "closed") ~> (pc["listener"] \in {"stopped", "exited", "killed"})

\* the routes of a fan-out over which the message was delivered: a send to
\* the route's target returned without error
Delivered(fanout) ==
  {i \in 1..Len(fanout) : \E k \in Attempts(fanout[i]) : fanout[i].calls[k].ok}

Target(e) == <<e.connection.TargetPlatform, e.connection.TargetChannelID>>

\* C31: after successful AddBridge calls, calls with the same arguments
\* included, one inbound message is delivered at most once to each target
\* (platform, channel).
C31_OneDeliveryPerTarget ==
  last.op \in MessageOps =>
    \A i, j \in Delivered(sent) : Target(sent[i]) = Target(sent[j]) => i = j

\* C32: ProcessMessage leaves the Connection Graph, the adapter registry, the
\* display-name cache and the store as they were, and returns success
\* whatever happened at each route.
C32_ProcessMessageFrame ==
  [][last'.op \in MessageOps =>
       /\ connections' = connections
       /\ platforms' = platforms
       /\ adapters' = adapters
       /\ userMappings' = userMappings
       /\ db' = db
       /\ last'.err = "nil"]_vars

\* a fan-out in which a send failed at one route and the message was
\* delivered over another
C32_Witness ==
  /\ last.op \in MessageOps
  /\ \E i \in 1..Len(sent) : \E k \in Attempts(sent[i]) : ~sent[i].calls[k].ok
  /\ Delivered(sent) # {}

\* the display name that the calls of SetUserMapping so far give to user
\* userID of platform
Expected(platform, userID) ==
  IF <<platform, userID>> \in DOMAIN supplied
    THEN supplied[<<platform, userID>>]
    ELSE userID

LegacyCall(sp, sc, userID) ==
  ProcessMessageLegacy(sp, sc, userID, platforms, {}, {})

\* C33: the display name attached to a bridged message is the name that
\* SetUserMapping was last given for the (source platform, user id) of the
\* message, or the user id when it was given none; names given for another
\* platform do not count.
C33_DisplayNameResolution ==
  [][last'.op = "ProcessMessage" =>
       \A sp \in PlatformTags, sc \in ChannelIDs, userID \in UserIDs :
         LegacyCall(sp, sc, userID) =>
           /\ attached'[1] = userID
           /\ attached'[2] = Expected(sp, userID)]_vars

\* a message of a user who has a name on the other platform only is bridged
\* under the user id, after it was bridged under a name of its own platform
C33_Witness ==
  /\ last.op = "ProcessMessage"
  /\ attached = <<"u1", "u1">>
  /\ \E p \in PlatformTags : <<p, "u1">> \in DOMAIN supplied
  /\ \E p \in PlatformTags : <<p, "u1">> \notin DOMAIN supplied

\* ------------------------------------------------ binding after removal
\* no row of room_mappings, active or not, is about channel c of platform p
Unmapped(d, p, c) ==
  \A k \in 1..Len(d.room_mappings) :
    ~(d.room_mappings[k].platform = p /\ d.room_mappings[k].platform_room_id = c)

\* no edge of the graph starts or ends at channel c of platform p
Unbound(conns, p, c) ==
  \A e \in EdgeSet(conns) :
    /\ ~(e[2].SourcePlatform = p /\ e[2].SourceChannelID = c)
    /\ ~(e[2].TargetPlatform = p /\ e[2].TargetChannelID = c)

\* C36: a channel does not stay bound after its bridge is removed: once
\* RemoveBridge(c, Q) has removed the bridge (P, c) - (Q, d) of two platforms,
\* the only bridge of its two channels, AddBridge(P, c, Q, d2) with another channel d2 that
\* no mapping is about returns nil, and so does AddBridge(P, c2, Q, d) with
\* another channel c2 that no mapping is about.
C36_RemovedChannelRebindable ==
  [][(cycle.stage = 2 /\ cycle.bridge[1] # cycle.bridge[3]) =>
       \A other \in ChannelIDs :
         /\ ( /\ other # cycle.bridge[4]
              /\ Unmapped(db, cycle.bridge[3], other)
              /\ Unbound(connections, cycle.bridge[1], cycle.bridge[2])
              /\ AddBridge(cycle.bridge[1], cycle.bridge[2],
                           cycle.bridge[3], other, 0) )
            => last'.err = "nil"
         /\ ( /\ other # cycle.bridge[2]
              /\ Unmapped(db, cycle.bridge[1], other)
              /\ Unbound(connections, cycle.bridge[3], cycle.bridge[4])
              /\ AddBridge(cycle.bridge[1], other,
                           cycle.bridge[3], cycle.bridge[4], 0) )
            => last'.err = "nil"]_vars

\* ------------------------------------------------ Discord slash commands
\* h.adminUsers and h.adminRoles, as SetAdminUsers and SetAdminRoles left them
adminUsers == {"a1"}

adminRoles == {"r1"}

\* i.Member: nil, or a member with a user id, roles and the Administrator bit
\* of its permissions
NilMember == [nil |-> TRUE, ID |-> "", Roles |-> {}, Administrator |-> FALSE]

Member(id, roles, adm) ==
  [nil |-> FALSE, ID |-> id, Roles |-> roles, Administrator |-> adm]

\* no member, an admin by each of the three tests of isAdmin, and a member
\* who passes none
Members ==
  {NilMember,
   Member("a1", {"r2"}, FALSE),
   Member("m1", {"r2", "r1"}, FALSE),
   Member("m1", {"r2"}, TRUE),
   Member("m1", {"r2"}, FALSE)}

\* mutant: the admin check that lets every member through
isAdmin_AllowAll(member) == ~member.nil

isAdmin(member) ==
  IF member.nil THEN FALSE
  ELSE IF member.ID \in adminUsers THEN TRUE
  ELSE IF member.Roles \cap adminRoles # {} THEN TRUE
  ELSE member.Administrator

\* the slash commands: data.Name and the name of the subcommand
SlashCommands ==
  {<<"bridge", "status">>, <<"bridge", "create">>, <<"bridge", "remove">>,
   <<"help", "">>}

\* onInteractionCreate with the bridge core set: the admin check, then the
\* command; "bridge create" calls AddBridge("discord", i.ChannelID, platform,
\* targetRoom), "bridge remove" calls RemoveBridge(i.ChannelID, platform), the
\* other commands only read the core
onInteractionCreate(member, command, channelID, platform, targetRoom) ==
  IF ~isAdmin(member)
    THEN /\ last' = Call("onInteractionCreate", "no permission", FALSE)
         /\ sent' = NoFanout
         /\ attached' = NoAttached
         /\ cycle' = NoCycle
         /\ UNCHANGED threadVars
         /\ UNCHANGED <<platforms, adapters, userMappings, connections, db,
                       faults, added, supplied>>
    ELSE IF command = <<"bridge", "create">>
      THEN AddBridge(PlatformDiscord, channelID, platform, targetRoom, 0)
    ELSE IF command = <<"bridge", "remove">>
      THEN RemoveBridge(channelID, platform, 0)
    ELSE /\ last' = Call("onInteractionCreate", "nil", FALSE)
         /\ sent' = NoFanout
         /\ attached' = NoAttached
         /\ cycle' = NoCycle
         /\ UNCHANGED threadVars
         /\ UNCHANGED <<platforms, adapters, userMappings, connections, db,
                       faults, added, supplied>>

\* SpecAdmin: the adapters are registered and members of the guild issue
\* slash commands in the channels
NextAdmin ==
  \/ \E platform \in MainAdapters : RegisterPlatform(platform)
  \/ \E member \in Members, command \in SlashCommands, channelID \in ChannelIDs,
        platform \in PlatformTags, targetRoom \in ChannelIDs :
       onInteractionCreate(member, command, channelID, platform, targetRoom)

SpecAdmin == Init /\ [][NextAdmin]_vars

\* C39: a slash command of a member who is not in the admin user list, has no
\* admin role and has not the Administrator permission changes neither the
\* graph nor the store.
NonAdmins ==
  {member \in Members : /\ member.ID \notin adminUsers
                        /\ member.Roles \cap adminRoles = {}
                        /\ ~member.Administrator}

C39_NonAdminChangesNothing ==
  [][\A member \in NonAdmins :
       \A command \in SlashCommands, channelID \in ChannelIDs,
          platform \in PlatformTags, targetRoom \in ChannelIDs :
         onInteractionCreate(member, command, channelID, platform, targetRoom)
           => UNCHANGED <<connections, db>>]_vars

\* a member without rights was refused while a bridge made by an admin exists
C39_Witness ==
  /\ last.op = "onInteractionCreate"
  /\ last.err = "no permission"
  /\ TotalBridges(connections) > 0

\* ------------------------------------------- Start and Stop of the client
\* what every call on the Telegram client and every step of its listeners
\* leaves alone
coreVars == <<platforms, connections, db, faults, sent, added, cycle,
              adapters, userMappings, attached, supplied, local>>

\* the process has died of a panic
Panicked == pc["main"] = "panic"

\* Client.Start called by the owner of the client: an error when isRunning;
\* otherwise a new updates channel, one more listener goroutine, isRunning
Client_Start ==
  /\ ~Panicked
  /\ IF isRunning
       THEN /\ last' = Call("Start", "already running", FALSE)
            /\ UNCHANGED <<updatesChan, listeners, isRunning>>
       ELSE /\ last' = Call("Start", "nil", FALSE)
            /\ updatesChan' = <<>>
            /\ listeners' = listeners + 1
            /\ isRunning' = TRUE
  /\ UNCHANGED <<pc, stopChan, handled>>
  /\ UNCHANGED coreVars

\* Client.Stop called by the owner of the client: nothing when not isRunning;
\* otherwise isRunning = false and close(c.stopChan), which panics on a
\* channel that is closed already
Client_Stop ==
  /\ ~Panicked
  /\ IF ~isRunning
       THEN /\ last' = Call("Stop", "nil", FALSE)
            /\ UNCHANGED <<pc, stopChan, listeners, isRunning>>
       ELSE /\ isRunning' = FALSE
            /\ IF stopChan = "closed"
                 THEN /\ last' = Call("Stop", "panic: close of closed channel", FALSE)
                      /\ pc' = [t \in Threads |-> "panic"]
                      /\ listeners' = 0
                      /\ UNCHANGED stopChan
                 ELSE /\ last' = Call("Stop", "nil", FALSE)
                      /\ stopChan' = "closed"
                      /\ UNCHANGED <<pc, listeners>>
  /\ UNCHANGED <<updatesChan, handled>>
  /\ UNCHANGED coreVars

\* the library puts an update on the updates channel of a running client
Client_UpdateArrives ==
  /\ ~Panicked
  /\ isRunning
  /\ Len(updatesChan) < MaxUpdates
  /\ \E u \in 1..MaxUpdates : updatesChan' = Append(updatesChan, u)
  /\ UNCHANGED <<pc, stopChan, listeners, isRunning, last, handled>>
  /\ UNCHANGED coreVars

\* a listener, in its select, takes the case of the updates channel, calls
\* handleUpdate and comes back to the select
Listener_Update ==
  /\ ~Panicked
  /\ listeners > 0
  /\ updatesChan # <<>>
  /\ updatesChan' = Tail(updatesChan)
  /\ handled' = handled \cup {<<"listener", Head(updatesChan), 0>>}
  /\ UNCHANGED <<pc, stopChan, listeners, isRunning, last>>
  /\ UNCHANGED coreVars

\* a listener, in its select, takes the case of stopChan and returns
Listener_Stop ==
  /\ ~Panicked
  /\ listeners > 0
  /\ stopChan = "closed"
  /\ listeners' = listeners - 1
  /\ UNCHANGED <<pc, stopChan, updatesChan, isRunning, last, handled>>
  /\ UNCHANGED coreVars

NextClient ==
  \/ Client_Start
  \/ Client_Stop
  \/ Client_UpdateArrives
  \/ Listener_Update
  \/ Listener_Stop

\* SpecClient: a client made by NewClient, on which Start and Stop are called
\* in any order by one caller
SpecClient == Init /\ [][NextClient]_vars

\* C38: whatever the sequence of Start and Stop calls, stopChan is not closed
\* twice, and a client that reports itself running has a live listener.
C38_StartStopSafe ==
  /\ ~Panicked
  /\ isRunning => listeners > 0

\* Start on a running client returns an error and starts no listener; Stop
\* on a stopped client changes nothing.
C38_RedundantCallsAreNoOps ==
  [][/\ (Client_Start /\ isRunning) =>
          last'.err # "nil" /\ UNCHANGED <<listeners, isRunning, stopChan>>
     /\ (Client_Stop /\ ~isRunning) =>
          last'.err = "nil" /\ UNCHANGED <<listeners, isRunning, stopChan>>]_vars

\* ------------------------------------------------------------ relay loops
\* the account of the bridge's bot on a platform, and the user that Discord
\* shows as the author of what the bridge's webhook posts
BotUser == "bot"

WebhookUser == "hook"

\* a message that a platform hands to its handler: m.Author.ID / From.ID,
\* m.Author.Bot / From.IsBot, m.WebhookID, the name the platform gives for
\* the author
Event(platform, channelID, authorID, username, bot, webhookID, text) ==
  [Platform |-> platform, ChannelID |-> channelID, AuthorID |-> authorID,
   Username |-> username, Bot |-> bot, WebhookID |-> webhookID, Text |-> text]

\* the messages that users write into the channels
UserEvents ==
  {Event(platform, channelID, "u1", "name1", FALSE, "", text) :
     platform \in PlatformTags, channelID \in ChannelIDs,
     text \in {"text", "/command", "[DISCORD]"}}

\* what the target channel shows after entry e of a fan-out was delivered:
\* a webhook message when SendBridgeMessage succeeded, else a message of the
\* bot with the prefix FormatMessage gave it
Echoes(e) ==
  IF RichSucceeded(e)
    THEN {Event(e.connection.TargetPlatform, e.connection.TargetChannelID,
                WebhookUser, "name1", TRUE, WebhookUser, "text")}
    ELSE {Event(e.connection.TargetPlatform, e.connection.TargetChannelID,
                BotUser, "name1", TRUE, "", text) :
            text \in {"[DISCORD]", "[TELEGRAM]"}}

\* the events that the platforms make of the deliveries of the last fan-out
EchoEvents == UNION {Echoes(sent[i]) : i \in Delivered(sent)}

\* mutant: onMessageCreate that ignores the bot's own messages only
onMessageCreate_Ignores_OwnOnly(m) ==
  IF m.AuthorID = BotUser THEN "own message" ELSE ""

\* the tests at the head of onMessageCreate: why m is ignored, "" when it is
\* not
onMessageCreate_Ignores(m) ==
  IF m.AuthorID = BotUser THEN "own message"
  ELSE IF m.WebhookID # "" THEN "webhook"
  ELSE IF m.Bot THEN "bot"
  ELSE ""

\* the tests of handleUpdate, in a message of the monitored chat
handleUpdate_Ignores(m) ==
  IF m.Bot THEN "bot"
  ELSE IF m.Text = "[DISCORD]" THEN "bridge text"
  ELSE IF m.Text = "/command" THEN "command"
  ELSE ""

Ignores(m) ==
  IF m.Platform = PlatformDiscord THEN onMessageCreate_Ignores(m)
                                  ELSE handleUpdate_Ignores(m)

\* onMessageCreate / handleUpdate with the bridge core set, for event m: the
\* tests, SetUserMapping, and ProcessMessageLegacy when the channel has a
\* connection
HandleEvent(m, connected, richFails, sendFails) ==
  LET conns == GetBridges(connections, m.ChannelID)
      um    == MapSet(userMappings, m.Platform,
                 MapSet(IF m.Platform \in DOMAIN userMappings
                          THEN userMappings[m.Platform] ELSE EmptyMap,
                        m.AuthorID, m.Username))
  IN
  /\ cycle' = NoCycle
  /\ UNCHANGED threadVars
  /\ UNCHANGED <<platforms, connections, db, faults, added, adapters>>
  /\ IF Ignores(m) # ""
       THEN /\ connected = {} /\ richFails = {} /\ sendFails = {}
            /\ last' = Call("HandleEvent", Ignores(m), FALSE)
            /\ UNCHANGED <<sent, attached, userMappings, supplied>>
       ELSE /\ userMappings' = um
            /\ supplied' = MapSet(supplied, <<m.Platform, m.AuthorID>>, m.Username)
            /\ IF Len(conns) = 0
                 THEN /\ connected = {} /\ richFails = {} /\ sendFails = {}
                      /\ sent' = NoFanout
                      /\ attached' = NoAttached
                      /\ last' = Call("HandleEvent", "nil", FALSE)
                 ELSE /\ connected \subseteq platforms
                      /\ richFails \subseteq RichCalled(conns, platforms, connected)
                      /\ sendFails \subseteq
                           SendCalled(conns, platforms, connected, richFails)
                      /\ Cardinality(richFails) + Cardinality(sendFails)
                           <= MaxSendFaults
                      /\ sent' = FanOut(conns, platforms, connected,
                                        richFails, sendFails)
                      /\ attached' = <<m.AuthorID,
                                       getDisplayName(um, m.Platform, m.AuthorID)>>
                      /\ last' = Call("ProcessMessage", "nil", FALSE)

\* SpecRelay: the adapters are registered, a Discord channel is bridged to a
\* Telegram chat and to another Discord channel; the platforms hand to the
\* handlers what users write and what the bridge delivered
NextRelay ==
  \/ \E platform \in MainAdapters : RegisterPlatform(platform)
  \/ \E tp \in PlatformTags : AddBridge(PlatformDiscord, "1", tp, "2", 0)
  \/ \E m \in UserEvents \cup EchoEvents :
       \E o \in Outcomes(GetBridges(connections, m.ChannelID)) \cup {<<{}, {}, {}>>} :
         HandleEvent(m, o[1], o[2], o[3])

SpecRelay == Init /\ [][NextRelay]_vars

\* C37: no message that the bridge delivered, by webhook or by a send of its
\* bot, is taken in as an inbound message: every fan-out is made for a
\* message whose author is neither the bot nor the webhook.
C37_NoRelayLoop ==
  attached # NoAttached => attached[1] \notin {BotUser, WebhookUser}

\* the handler was handed a webhook message that the bridge had delivered,
\* and ignored it
C37_Witness ==
  /\ last.op = "HandleEvent"
  /\ last.err = "webhook"
  /\ \E i \in Delivered(sent) : RichSucceeded(sent[i])

\* the handler was handed a message that the bot had sent, and ignored it
C37_WitnessBotSend ==
  /\ last.op = "HandleEvent"
  /\ last.err \in {"own message", "bot"}
  /\ \E i \in Delivered(sent) : ~RichSucceeded(sent[i])

\* ------------------------------------- commands that run at the same time
\* what a goroutine that runs a slash command holds: the call it makes on
\* the core, the slice it read from bc.connections, the position found in
\* it, and the error the call returned
Command(op, sp, sc, tp, tc) ==
  [op |-> op, sp |-> sp, sc |-> sc, tp |-> tp, tc |-> tc,
   read |-> <<>>, at |-> 0, err |-> ""]

Returns(t, err) ==
  /\ pc' = [pc EXCEPT ![t] = "returned"]
  /\ local' = [local EXCEPT ![t].err = err]

\* the core after main has registered both adapters, started the Telegram
\* client and connected the Discord client
Serving ==
  /\ platforms = PlatformTags
  /\ adapters = [p \in PlatformTags |-> 1]
  /\ userMappings = [p \in PlatformTags |-> EmptyMap]
  /\ last = Call("RegisterPlatform", "nil", FALSE)
  /\ faults = 0
  /\ sent = NoFanout
  /\ added = {}
  /\ cycle = NoCycle
  /\ attached = NoAttached
  /\ supplied = EmptyMap
  /\ updatesChan = <<>>
  /\ stopChan = "open"
  /\ isRunning = TRUE
  /\ listeners = 1
  /\ handled = {}

\* goroutine t goes one statement further in AddBridge: the test of the
\* platforms, saveBridgeToDatabase, and for the forward and the reverse
\* connection the read of the slice under the key and the store of the
\* appended slice under it
AddBridgeStep(t) ==
  LET c     == local[t]
      saved == saveBridgeToDatabase(db, c.sp, c.sc, c.tp, c.tc, 0)
      fwd   == BridgeConnection(ConnectionID(c.sp, c.sc, c.tp, c.tc),
                                c.sp, c.sc, c.tp, c.tc)
      rev   == BridgeConnection(ConnectionID(c.tp, c.tc, c.sp, c.sc),
                                c.tp, c.tc, c.sp, c.sc)
  IN
  /\ pc[t] \in {"AddBridge", "save", "readForward", "appendForward",
                "readReverse", "appendReverse"}
  /\ CASE pc[t] = "AddBridge" ->
            /\ IF PlatformsRegistered(platforms, c.sp, c.tp)
                 THEN /\ pc' = [pc EXCEPT ![t] = "save"]
                      /\ UNCHANGED local
                 ELSE Returns(t, "unknown platform")
            /\ UNCHANGED <<db, connections>>
       [] pc[t] = "save" ->
            /\ db' = saved.db
            /\ IF saved.err
                 THEN Returns(t, "save failed")
                 ELSE /\ pc' = [pc EXCEPT ![t] = "readForward"]
                      /\ UNCHANGED local
            /\ UNCHANGED connections
       [] pc[t] = "readForward" ->
            /\ local' = [local EXCEPT ![t].read = GetBridges(connections, c.sc)]
            /\ pc' = [pc EXCEPT ![t] = "appendForward"]
            /\ UNCHANGED <<db, connections>>
       [] pc[t] = "appendForward" ->
            /\ connections' = MapSet(connections, c.sc, Append(c.read, fwd))
            /\ pc' = [pc EXCEPT ![t] = "readReverse"]
            /\ UNCHANGED <<db, local>>
       [] pc[t] = "readReverse" ->
            /\ local' = [local EXCEPT ![t].read = GetBridges(connections, c.tc)]
            /\ pc' = [pc EXCEPT ![t] = "appendReverse"]
            /\ UNCHANGED <<db, connections>>
       [] pc[t] = "appendReverse" ->
            /\ connections' = MapSet(connections, c.tc, Append(c.read, rev))
            /\ Returns(t, "nil")
            /\ UNCHANGED db
  /\ UNCHANGED <<platforms, last, faults, sent, added, cycle, attached,
                 supplied, listeners, adapters, userMappings, updatesChan,
                 stopChan, isRunning, handled>>

\* SpecAdd: two members issue /bridge create at the same time; the Discord
\* library runs each interaction handler in a goroutine of its own
InitAdd ==
  /\ Serving
  /\ db = EmptyDB
  /\ connections = NoConnections
  /\ pc = [t \in Threads |->
             IF t = "main" THEN "wait"
             ELSE IF t = "listener" THEN "select"
             ELSE IF t = "discord" THEN "idle" ELSE "AddBridge"]
  /\ \E sc1, sc2, tc1, tc2 \in ChannelIDs, tp1, tp2 \in PlatformTags :
       local = [t \in Threads |->
                  IF t = "command1"
                    THEN Command("AddBridge", PlatformDiscord, sc1, tp1, tc1)
                  ELSE IF t = "command2"
                    THEN Command("AddBridge", PlatformDiscord, sc2, tp2, tc2)
                  ELSE NoMessage]

NextAdd ==
  \/ \E t \in Commands : AddBridgeStep(t)
  \/ Throw

SpecAdd == InitAdd /\ [][NextAdd]_vars

\* connection sp sc -> tp tc is in the graph
HasEdge(conns, sp, sc, tp, tc) ==
  \E i \in 1..Len(GetBridges(conns, sc)) :
    /\ conns[sc][i].SourcePlatform = sp
    /\ conns[sc][i].SourceChannelID = sc
    /\ conns[sc][i].TargetPlatform = tp
    /\ conns[sc][i].TargetChannelID = tc

\* C34: when two AddBridge calls that ran at the same time have both returned
\* success, the graph holds the forward and the reverse edge of both bridges.
C34_ConcurrentAddsKeepEdges ==
  (\A t \in Commands : pc[t] = "returned" /\ local[t].err = "nil") =>
    \A t \in Commands :
      /\ HasEdge(connections, local[t].sp, local[t].sc, local[t].tp, local[t].tc)
      /\ HasEdge(connections, local[t].tp, local[t].tc, local[t].sp, local[t].sc)

\* ------------------------------------------- RemoveBridge during a fan-out
\* append(s[:i], s[i+1:]...) works inside the array behind s: the elements
\* after position i move down by one and the last position keeps what it had
Shift(array, i) == RemoveAt(array, i) \o << array[Len(array)] >>

\* the callers that are in the fan-out loop over the slice they read under
\* key: their range goes on over the same array
Ranging(key) ==
  {h \in {"listener", "discord"} :
     pc[h] \in {"platforms", "send"} /\ Inbound(h).channelID = key}

\* local after the array behind the slice of key was shifted at position i
Shifted(loc, key, i) ==
  [h \in Threads |->
     IF h \in Ranging(key) /\ i <= Len(loc[h].array)
       THEN [loc[h] EXCEPT !.array = Shift(@, i)]
       ELSE loc[h]]

\* goroutine t goes one statement further in RemoveBridge: the read of the
\* slice and the search, the removal of the forward connection, the removal
\* of the reverse connection, removeBridgeFromDatabase
RemoveBridgeStep(t) ==
  LET c       == local[t]
      conns   == GetBridges(connections, c.sc)
      i       == FindConnection(conns, c.tp)
      conn    == c.read[c.at]
      reverse == GetBridges(connections, conn.TargetChannelID)
      j       == FirstIndex(reverse,
                   LAMBDA r : /\ r.TargetChannelID = c.sc
                              /\ r.TargetPlatform = conn.SourcePlatform)
      gone    == removeBridgeFromDatabase(db, conn.SourcePlatform, c.sc, c.tp, 0)
  IN
  /\ pc[t] \in {"RemoveBridge", "removeForward", "removeReverse",
                "removeFromDatabase"}
  /\ CASE pc[t] = "RemoveBridge" ->
            /\ IF c.sc \notin DOMAIN connections
                 THEN Returns(t, "no bridges found")
                 ELSE IF i = 0
                   THEN Returns(t, "bridge not found")
                   ELSE /\ local' = [local EXCEPT ![t].read = conns, ![t].at = i]
                        /\ pc' = [pc EXCEPT ![t] = "removeForward"]
            /\ UNCHANGED <<db, connections>>
       [] pc[t] = "removeForward" ->
            /\ connections' = [connections EXCEPT ![c.sc] = RemoveAt(c.read, c.at)]
            /\ local' = Shifted(local, c.sc, c.at)
            /\ pc' = [pc EXCEPT ![t] = "removeReverse"]
            /\ UNCHANGED db
       [] pc[t] = "removeReverse" ->
            /\ IF j # 0
                 THEN /\ connections' = [connections EXCEPT
                                           ![conn.TargetChannelID] = RemoveAt(reverse, j)]
                      /\ local' = Shifted(local, conn.TargetChannelID, j)
                 ELSE UNCHANGED <<connections, local>>
            /\ pc' = [pc EXCEPT ![t] = "removeFromDatabase"]
            /\ UNCHANGED db
       [] pc[t] = "removeFromDatabase" ->
            /\ db' = gone.db
            /\ Returns(t, "nil")
            /\ UNCHANGED connections
  /\ UNCHANGED <<platforms, last, faults, sent, added, cycle, attached,
                 supplied, listeners, adapters, userMappings, updatesChan,
                 stopChan, isRunning, handled>>

\* the bridges made before the message and the command come in
InitBridges ==
  {<< <<PlatformDiscord, "1", PlatformTelegram, "2">>, b >> :
     b \in {<<PlatformTelegram, "1", PlatformDiscord, "2">>,
            <<PlatformDiscord, "2", PlatformTelegram, "1">>}}

\* SpecRemove: a member writes into Discord channel "1" while another issues
\* /bridge remove
InitRemove ==
  /\ Serving
  /\ \E bs \in InitBridges :
       /\ db = saveBridgeToDatabase(
                 saveBridgeToDatabase(EmptyDB, bs[1][1], bs[1][2], bs[1][3],
                                      bs[1][4], 0).db,
                 bs[2][1], bs[2][2], bs[2][3], bs[2][4], 0).db
       /\ connections =
            AddConnections(
              AddConnections(NoConnections, bs[1][1], bs[1][2], bs[1][3], bs[1][4]),
              bs[2][1], bs[2][2], bs[2][3], bs[2][4])
  /\ pc = [t \in Threads |->
             IF t = "main" THEN "wait"
             ELSE IF t = "listener" THEN "select"
             ELSE IF t = "discord" THEN "idle"
             ELSE IF t = "command1" THEN "RemoveBridge" ELSE "none"]
  /\ \E sc \in ChannelIDs, tp \in PlatformTags :
       local = [t \in Threads |->
                  IF t = "command1"
                    THEN Command("RemoveBridge", PlatformDiscord, sc, tp, "")
                    ELSE NoMessage]

NextRemove ==
  \/ onMessageCreate
  \/ HandlerStep("discord")
  \/ SendReturn("discord")
  \/ RemoveBridgeStep("command1")
  \/ Throw

SpecRemove == InitRemove /\ [][NextRemove]_vars

TargetOf(c) == <<c.TargetPlatform, c.TargetChannelID>>

\* C35: in a fan-out that runs while RemoveBridge works on its source
\* channel, the sends made so far are for connections that were among the
\* routes when the fan-out read them, at most one per connection, and no two
\* of them go to the same target.
C35_FanOutDuringRemove ==
  \A h \in {"listener", "discord"} :
    LET routes == local[h].conns
        tried  == local[h].tried
    IN (\A a, b \in 1..Len(routes) :
          TargetOf(routes[a]) = TargetOf(routes[b]) => a = b)
       => /\ \A a \in 1..Len(tried) : \E b \in 1..Len(routes) : tried[a] = routes[b]
          /\ \A a, b \in 1..Len(tried) :
               TargetOf(tried[a]) = TargetOf(tried[b]) => a = b

=============================================================================
